---- MODULE Spec2Model ----
(***************************************************************************)
(* Model of the telemetry dashboards of src/src/dash_app.py (the basic     *)
(* app) and src/src/dash_app_enhanced.py (the enhanced app): the fetch     *)
(* callback that decides when to query the analytic store and what it      *)
(* writes to the dcc.Store components, the queries of DataQueries, and the *)
(* chart callbacks that turn the stored tables into figures.               *)
(*                                                                         *)
(* A callback invocation is split where the code can be suspended: the     *)
(* decision at its top is taken when the input fires, with the input       *)
(* values of that moment; the queries and the return happen when the       *)
(* invocation completes.  Nothing in the code orders two invocations, so   *)
(* invocations complete in any order.                                      *)
(***************************************************************************)
EXTENDS Integers, Sequences, FiniteSets, TLC

VARIABLES
    app,            \* which of the two dashboards runs: "basic" or "enhanced"
    days_back,      \* value of date-range-dropdown
    auto_refresh,   \* value of auto-refresh-switch
    active_tab,     \* active_tab of main-tabs (enhanced app)
    kpi_store,      \* data of kpi-data-store
    charts_store,   \* data of charts-data-store
    aux_stores,     \* data of cost-, security- and weekly-data-store
    inflight,       \* fetch invocations that passed the skip checks and have not returned
    last_call,      \* the latest step: the callback's trigger and what it did
    warehouse,      \* the analytic store: what each named query yields
    heat_rows,      \* charts_data['usage_heatmap']
    heat_fig,       \* figure of update_usage_heatmap
    trend_rows,     \* charts_data['dau_trend'] or charts_data['user_cohorts']
    trend_fig,      \* figure of update_dau_chart / update_user_cohorts_chart
    kpi_counts,     \* aggregates the KPI summary query computes over the audit log
    kpi_row,        \* the row the KPI summary query returns
    audit,          \* rows of system.access.audit with service_name = 'apps'
    user_clicks,    \* number of audit rows of each user in the date range
    seg_rows,       \* result of the user segmentation query
    cohort_rows,    \* result of the user cohorts query
    app_clicks,     \* number of audit rows of each app in the date range
    top_rows,       \* result of the top apps query
    seg_table,      \* children of user-segmentation-table
    kpi_cards,      \* children of the four KPI cards
    dashboard_config, \* DASHBOARD_CONFIG['dashboards'], loaded at startup
    environ,        \* the environment variables of the process
    tab_content,    \* children of tab-content
    figures,        \* figure of each chart fed by charts-data-store
    workspace_id,   \* AppConfig.WORKSPACE_ID, read from the configuration at startup
    catalog_calls,  \* the latest calls of DataQueries functions and the text each returned
    clock,          \* the wall clock, in ticks
    last_update,    \* children of last-update-time
    connection_status \* children of connection-status (enhanced app)

orchVars == <<app, days_back, auto_refresh, active_tab, kpi_store, charts_store,
              aux_stores, inflight, last_call, warehouse>>
heatVars == <<heat_rows, heat_fig>>
trendVars == <<trend_rows, trend_fig>>
kpiVars == <<kpi_counts, kpi_row>>
segVars == <<user_clicks, seg_rows>>
cohortVars == <<cohort_rows>>
topVars == <<app_clicks, top_rows>>
queryVars == <<audit, segVars, cohortVars, topVars>>
embedVars == <<dashboard_config, environ, tab_content>>
viewVars == <<seg_table, kpi_cards, embedVars, figures>>
catalogVars == <<workspace_id, catalog_calls>>
statusVars == <<clock, last_update, connection_status>>
pageVars == <<catalogVars, statusVars>>
xformVars == <<heatVars, trendVars, kpiVars, queryVars, viewVars, pageVars>>
vars == <<orchVars, xformVars>>

(***************************************************************************)
(* Bounds of the model.                                                    *)
(***************************************************************************)
MaxInFlight == 2     \* fetch invocations that may be pending at once
MaxRangeDays == 4    \* calendar days of the range a trend query covers
MaxValue == 2        \* largest per-day value of a trend row
MaxCount == 3        \* largest user / interaction count of a KPI period
MaxEvents == 2       \* rows of the audit log
MaxClicks == 101     \* largest click count of one user
MaxApps == 3         \* apps with audit rows in the date range
MaxAppClicks == 3    \* largest click count of one app
MaxSegRows == 27     \* rows of a stored segmentation table

(***************************************************************************)
(* Layout: the inputs of the fetch callback and the stores.                *)
(***************************************************************************)
Apps == {"basic", "enhanced"}

\* options of date-range-dropdown
DateRangeOptions == {7, 30, 90, 180}

\* value=30 of date-range-dropdown
DEFAULT_DAYS_BACK == 30

\* tab_id of the dbc.Tab children of main-tabs
TabIds == {"tab-apps-usage", "tab-cost-roi", "tab-security", "tab-weekly",
           "tab-logfood-1", "tab-logfood-2"}

\* the basic app has no tabs; its single page is the apps usage page
AppTabs(a) == IF a = "enhanced" THEN TabIds ELSE {"tab-apps-usage"}

\* the dcc.Store a tab's content would read (embedded tabs have none)
TabStore(t) ==
    CASE t = "tab-apps-usage" -> "charts-data-store"
      [] t = "tab-cost-roi"   -> "cost-data-store"
      [] t = "tab-security"   -> "security-data-store"
      [] t = "tab-weekly"     -> "weekly-data-store"
      [] OTHER                -> "none"

AuxStoreIds == {"cost-data-store", "security-data-store", "weekly-data-store"}

\* keys of charts_data, in the order the fetch callbacks query them
ChartNames == <<"dau_trend", "top_apps", "usage_heatmap", "user_cohorts",
                "error_monitoring", "user_segmentation">>
ChartNameSet == {ChartNames[i] : i \in 1..Len(ChartNames)}
QueryNames == {"kpi_summary"} \cup ChartNameSet

\* what the analytic store does with one query
Outcomes == {"error", "empty", "rows"}

(***************************************************************************)
(* Values held by the stores.  `days_back' in a store value is a label of  *)
(* the model: the date range of the invocation that returned the value (0  *)
(* when no fetch returned it).  The code keeps no such tag.                *)
(***************************************************************************)
EmptyTables == [n \in ChartNameSet |-> <<>>]

\* dcc.Store(id=...) without data
NoneStore == [type |-> "None", data |-> <<>>, days_back |-> 0]
NoneCharts == [type |-> "None", keys |-> {}, tables |-> EmptyTables, days_back |-> 0]

\* the {} a callback returns for either store
EmptyKpi(d) == [type |-> "dict", data |-> <<>>, days_back |-> d]
EmptyCharts(d) == [type |-> "dict", keys |-> {}, tables |-> EmptyTables, days_back |-> d]

Min(a, b) == IF a < b THEN a ELSE b

(***************************************************************************)
(* Query Catalog.  A query text is represented by the values interpolated  *)
(* into it: its name, the day window and whether WORKSPACE_FILTER is in it.*)
(***************************************************************************)
Query(a, name, d) ==
    [name |-> name, days_back |-> d, workspace |-> (a = "enhanced")]

\* cursor.execute(query) and the fetch of its result: the rows of the query,
\* labelled with the query they answer; an unreachable store or a rejected
\* query raises
WarehouseRows(q) ==
    IF warehouse[q.name] = "rows"
    THEN <<[query |-> q.name, days_back |-> q.days_back]>>
    ELSE <<>>

execute_query_raises(q) ==
    IF warehouse[q.name] = "error"
    THEN [raised |-> TRUE, df |-> <<>>]
    ELSE [raised |-> FALSE, df |-> WarehouseRows(q)]

\* execute_query of the basic app, sql_query of the enhanced app: any
\* exception is caught and an empty DataFrame returned
execute_query(q) ==
    IF warehouse[q.name] = "error"
    THEN [raised |-> FALSE, df |-> <<>>]
    ELSE [raised |-> FALSE, df |-> WarehouseRows(q)]

\* the days_back each chart query of one fetch is built with
dau_days_back_same(a, d) == d

dau_days_back(a, d) == IF a = "enhanced" THEN Min(d * 3, 90) ELSE d

ChartQuery(a, name, d) ==
    IF name = "dau_trend" THEN Query(a, name, dau_days_back(a, d))
    ELSE Query(a, name, d)

\* the queries of one fetch, in the order they are executed
FetchQueries(a, d) ==
    <<Query(a, "kpi_summary", d)>> \o
    [i \in 1..Len(ChartNames) |-> ChartQuery(a, ChartNames[i], d)]

(***************************************************************************)
(* The body of the fetch callbacks after the skip checks.                  *)
(***************************************************************************)
FetchResults(a, d) == [i \in 1..Len(FetchQueries(a, d)) |-> execute_query(FetchQueries(a, d)[i])]

\* index of the first query that raised, 0 when none did
FirstRaised(res) ==
    IF \E i \in 1..Len(res) : res[i].raised
    THEN CHOOSE i \in 1..Len(res) : res[i].raised /\ \A j \in 1..(i - 1) : ~res[j].raised
    ELSE 0

\* kpi_df.to_dict('records')[0] if not kpi_df.empty else {}
KpiData(df, d) == [type |-> "dict", data |-> IF df = <<>> THEN <<>> ELSE <<df[1]>>,
                   days_back |-> d]

ChartsData(res, d) ==
    [type |-> "dict", keys |-> ChartNameSet,
     tables |-> [n \in ChartNameSet |->
                    res[1 + CHOOSE i \in 1..Len(ChartNames) : ChartNames[i] = n].df],
     days_back |-> d]

FetchBody_stops_after_empty_kpi(a, d) ==
    LET res == FetchResults(a, d)
        qs  == FetchQueries(a, d)
    IN  IF res[1].df = <<>>
        THEN [queries |-> SubSeq(qs, 1, 1), returns |-> TRUE,
              kpi |-> EmptyKpi(d), charts |-> EmptyCharts(d)]
        ELSE [queries |-> qs, returns |-> TRUE,
              kpi |-> KpiData(res[1].df, d), charts |-> ChartsData(res, d)]

\* What one fetch does: the queries it issued, and what it returns.  A raised
\* exception ends the queries; the enhanced app catches it and returns {}, {},
\* the basic app has no handler, so the callback fails and writes nothing.
FetchBody(a, d) ==
    LET res == FetchResults(a, d)
        r   == FirstRaised(res)
        qs  == FetchQueries(a, d)
    IN  IF r = 0
        THEN [queries |-> qs, returns |-> TRUE,
              kpi |-> KpiData(res[1].df, d), charts |-> ChartsData(res, d)]
        ELSE IF a = "enhanced"
        THEN [queries |-> SubSeq(qs, 1, r), returns |-> TRUE,
              kpi |-> EmptyKpi(d), charts |-> EmptyCharts(d)]
        ELSE [queries |-> SubSeq(qs, 1, r), returns |-> FALSE,
              kpi |-> NoneStore, charts |-> NoneCharts]

(***************************************************************************)
(* The skip checks at the top of the fetch callbacks.  `triggered' is      *)
(* whether ctx.triggered is non-empty, trigger_id the id of its first      *)
(* entry.  The result is "empty" (return {}, {}), "no_update" or "fetch".  *)
(***************************************************************************)
fetch_data_never_skips(triggered, trigger_id, auto) ==
    IF ~triggered THEN "empty" ELSE "fetch"

fetch_data_decision(triggered, trigger_id, auto) ==
    IF ~triggered THEN "empty"
    ELSE IF trigger_id = "interval-component" /\ ~auto THEN "no_update"
    ELSE "fetch"

fetch_telemetry_data_auto_only(triggered, trigger_id, tab, auto) ==
    IF triggered /\ ~auto THEN "no_update"
    ELSE IF triggered /\ tab # "tab-apps-usage" /\ trigger_id = "main-tabs" THEN "no_update"
    ELSE "fetch"

fetch_telemetry_data_no_tab_check(triggered, trigger_id, tab, auto) ==
    IF triggered /\ trigger_id = "interval-component" /\ ~auto THEN "no_update"
    ELSE "fetch"

fetch_telemetry_data_empty_on_load(triggered, trigger_id, tab, auto) ==
    IF ~triggered THEN "empty"
    ELSE IF trigger_id = "interval-component" /\ ~auto THEN "no_update"
    ELSE IF tab # "tab-apps-usage" /\ trigger_id = "main-tabs" THEN "no_update"
    ELSE "fetch"

fetch_telemetry_data_tab_gates_all(triggered, trigger_id, tab, auto) ==
    IF triggered /\ trigger_id = "interval-component" /\ ~auto THEN "no_update"
    ELSE IF triggered /\ tab # "tab-apps-usage" THEN "no_update"
    ELSE "fetch"

fetch_telemetry_data_decision(triggered, trigger_id, tab, auto) ==
    IF triggered /\ trigger_id = "interval-component" /\ ~auto THEN "no_update"
    ELSE IF triggered /\ tab # "tab-apps-usage" /\ trigger_id = "main-tabs" THEN "no_update"
    ELSE "fetch"

Decision(triggered, trigger_id, tab, auto) ==
    IF app = "enhanced"
    THEN fetch_telemetry_data_decision(triggered, trigger_id, tab, auto)
    ELSE fetch_data_decision(triggered, trigger_id, auto)

\* `triggered' is ctx.triggered of the invocation: the ids of the inputs that
\* changed, in the order Dash reports them
Call(triggered, result) ==
    [kind |-> "callback", triggered |-> triggered,
     trigger_id |-> IF triggered = <<>> THEN "" ELSE triggered[1],
     result |-> result, queries |-> <<>>]

\* One invocation of the fetch callback up to its first query; the skip
\* checks look at ctx.triggered[0] only.
InvokeFetch(triggered, d, tab) ==
    LET r == Decision(triggered # <<>>, IF triggered = <<>> THEN "" ELSE triggered[1],
                      tab, auto_refresh)
    IN  /\ last_call' = Call(triggered, r)
        /\ CASE r = "fetch" ->
                   /\ Len(inflight) < MaxInFlight
                   /\ inflight' = Append(inflight, [group |-> "charts-data-store", days_back |-> d])
                   /\ UNCHANGED <<kpi_store, charts_store>>
             [] r = "empty" ->
                   /\ kpi_store' = EmptyKpi(0)
                   /\ charts_store' = EmptyCharts(0)
                   /\ UNCHANGED inflight
             [] OTHER ->
                   UNCHANGED <<kpi_store, charts_store, inflight>>
        /\ UNCHANGED <<app, aux_stores, warehouse>>

\* the invocation alone: no other callback of the event changes anything
InvokeTriggered(triggered, d, tab) ==
    /\ InvokeFetch(triggered, d, tab)
    /\ UNCHANGED xformVars

\* an invocation with at most one changed input
Invoke(triggered, trigger_id, d, tab) ==
    InvokeTriggered(IF triggered THEN <<trigger_id>> ELSE <<>>, d, tab)

Started == last_call.kind # "none"

\* page load: Dash calls every callback once, with nothing triggered
InitialLoad ==
    /\ ~Started
    /\ Invoke(FALSE, "", days_back, active_tab)
    /\ UNCHANGED <<days_back, auto_refresh, active_tab>>

\* interval-component fires: n_intervals changes
TimerTick ==
    /\ Started
    /\ Invoke(TRUE, "interval-component", days_back, active_tab)
    /\ UNCHANGED <<days_back, auto_refresh, active_tab>>

\* refresh-button is clicked: n_clicks changes
ClickRefresh ==
    /\ Started
    /\ Invoke(TRUE, "refresh-button", days_back, active_tab)
    /\ UNCHANGED <<days_back, auto_refresh, active_tab>>

\* another option of date-range-dropdown is chosen
SelectDateRange(d) ==
    /\ Started
    /\ d # days_back
    /\ days_back' = d
    /\ Invoke(TRUE, "date-range-dropdown", d, active_tab)
    /\ UNCHANGED <<auto_refresh, active_tab>>

\* another tab of main-tabs is chosen (enhanced app)
SwitchTab(t) ==
    /\ Started
    /\ t \in AppTabs(app)
    /\ t # active_tab
    /\ active_tab' = t
    /\ Invoke(TRUE, "main-tabs", days_back, t)
    /\ UNCHANGED <<days_back, auto_refresh>>

\* auto-refresh-switch is a State of the callback: toggling it calls nothing
ToggleAutoRefresh ==
    /\ Started
    /\ auto_refresh' = ~auto_refresh
    /\ last_call' = [kind |-> "switch", triggered |-> <<>>, trigger_id |-> "", result |-> "", queries |-> <<>>]
    /\ UNCHANGED <<app, days_back, active_tab, kpi_store, charts_store, aux_stores,
                   inflight, warehouse, xformVars>>

Complete_charts_only(i) ==
    /\ i \in 1..Len(inflight)
    /\ LET body == FetchBody(app, inflight[i].days_back)
       IN  /\ kpi_store' = IF kpi_store.type = "None" THEN body.kpi ELSE kpi_store
           /\ charts_store' = IF body.returns THEN body.charts ELSE charts_store
           /\ last_call' = [kind |-> "response", triggered |-> <<>>, trigger_id |-> "",
                            result |-> IF body.returns THEN "written" ELSE "failed",
                            queries |-> body.queries]
    /\ inflight' = [j \in 1..(Len(inflight) - 1) |->
                        IF j < i THEN inflight[j] ELSE inflight[j + 1]]
    /\ UNCHANGED <<app, days_back, auto_refresh, active_tab, aux_stores, warehouse,
                   xformVars>>

\* a pending invocation runs its queries and returns; its outputs are written
Complete(i) ==
    /\ i \in 1..Len(inflight)
    /\ LET body == FetchBody(app, inflight[i].days_back)
       IN  /\ kpi_store' = IF body.returns THEN body.kpi ELSE kpi_store
           /\ charts_store' = IF body.returns THEN body.charts ELSE charts_store
           /\ last_call' = [kind |-> "response", triggered |-> <<>>, trigger_id |-> "",
                            result |-> IF body.returns THEN "written" ELSE "failed",
                            queries |-> body.queries]
    /\ inflight' = [j \in 1..(Len(inflight) - 1) |->
                        IF j < i THEN inflight[j] ELSE inflight[j + 1]]
    /\ UNCHANGED <<app, days_back, auto_refresh, active_tab, aux_stores, warehouse,
                   xformVars>>

(***************************************************************************)
(* Initial values of the parts of the state.                               *)
(***************************************************************************)
WarehouseUp == [n \in QueryNames |-> "rows"]
WarehouseDown == [n \in QueryNames |-> "error"]

LayoutInit ==
    /\ days_back = DEFAULT_DAYS_BACK
    /\ auto_refresh = TRUE
    /\ active_tab = "tab-apps-usage"
    /\ kpi_store = NoneStore
    /\ charts_store = NoneCharts
    /\ aux_stores = [s \in AuxStoreIds |-> NoneStore]
    /\ inflight = <<>>
    /\ last_call = [kind |-> "none", triggered |-> <<>>, trigger_id |-> "", result |-> "", queries |-> <<>>]

NoFigure == [made |-> FALSE]

HeatIdle == heat_rows = {} /\ heat_fig = NoFigure
TrendIdle == trend_rows = <<>> /\ trend_fig = NoFigure
KpiIdle == kpi_counts = <<>> /\ kpi_row = <<>>

\* a query that has not been run
NoRows == [made |-> FALSE]

SegIdle == user_clicks = <<>> /\ seg_rows = NoRows
CohortIdle == cohort_rows = NoRows
TopIdle == app_clicks = <<>> /\ top_rows = NoRows
QueryIdle == audit = {} /\ SegIdle /\ CohortIdle /\ TopIdle

\* an output no callback has written yet
NotRendered == [made |-> FALSE]

\* no dashboard_config.yaml ('dashboards': {}) and no *_URL variable set
EmbedIdle == dashboard_config = <<>> /\ environ = <<>> /\ tab_content = NotRendered

\* the tables of charts_data that a chart callback plots
ChartFigures == ChartNameSet \ {"user_segmentation"}

FiguresIdle == figures = [n \in ChartFigures |-> NotRendered]

ViewIdle == seg_table = NotRendered /\ kpi_cards = NotRendered /\ EmbedIdle /\ FiguresIdle

\* workspace_id of dashboard_config.yaml when the file has none
DEFAULT_WORKSPACE_ID == "1602460480284688"

CatalogIdle == workspace_id = DEFAULT_WORKSPACE_ID /\ catalog_calls = <<>>

\* html.Span(id='last-update-time') and html.Span(id='connection-status')
\* of the layout have no children
StatusIdle == clock = 0 /\ last_update = NotRendered /\ connection_status = NotRendered

PageIdle == CatalogIdle /\ StatusIdle

(***************************************************************************)
(* Spec: the fetch callback under every interleaving of its triggers, with *)
(* the analytic store reachable or unreachable.                            *)
(***************************************************************************)
Init ==
    /\ app \in Apps
    /\ warehouse \in {WarehouseUp, WarehouseDown}
    /\ LayoutInit
    /\ ViewIdle
    /\ PageIdle
    /\ HeatIdle /\ TrendIdle /\ KpiIdle /\ QueryIdle

Next ==
    \/ InitialLoad
    \/ TimerTick
    \/ ClickRefresh
    \/ \E d \in DateRangeOptions : SelectDateRange(d)
    \/ \E t \in TabIds : SwitchTab(t)
    \/ ToggleAutoRefresh
    \/ \E i \in 1..MaxInFlight : Complete(i)

Spec == Init /\ [][Next]_vars

(***************************************************************************)
(* SpecFetch: one fetch at a time, against an analytic store in which each *)
(* named query independently fails, returns no row, or returns rows.       *)
(***************************************************************************)
Quiet == inflight = <<>> /\ days_back = DEFAULT_DAYS_BACK

RefreshWhenQuiet == Quiet /\ ClickRefresh

SelectWhenQuiet(d) == Quiet /\ SelectDateRange(d)

InitFetch ==
    /\ app \in Apps
    /\ warehouse \in [QueryNames -> Outcomes]
    /\ LayoutInit
    /\ ViewIdle
    /\ PageIdle
    /\ HeatIdle /\ TrendIdle /\ KpiIdle /\ QueryIdle

NextFetch ==
    \/ InitialLoad
    \/ RefreshWhenQuiet
    \/ \E d \in DateRangeOptions : SelectWhenQuiet(d)
    \/ Complete(1)

SpecFetch == InitFetch /\ [][NextFetch]_vars

(***************************************************************************)
(* Claims about the fetch callback.                                        *)
(***************************************************************************)
CallbackStep(ids) == last_call'.kind = "callback" /\ last_call'.trigger_id \in ids

HasData(store) == store.type = "dict" /\ store.days_back # 0

\* C1: a step of the fetch callback triggered by the interval while the
\* auto-refresh switch is off returns no_update without issuing a query: it
\* starts no fetch and leaves kpi-data-store and charts-data-store as they
\* were, in both apps and whatever the stores hold.
C1_TickSkippedWhenAutoRefreshOff ==
    [][(CallbackStep({"interval-component"}) /\ ~auto_refresh)
        => /\ last_call'.result = "no_update"
           /\ last_call'.queries = <<>>
           /\ UNCHANGED <<kpi_store, charts_store, inflight>>]_vars

C1_Witness ==
    /\ last_call.kind = "callback"
    /\ last_call.trigger_id = "interval-component"
    /\ last_call.result = "no_update"
    /\ ~auto_refresh
    /\ HasData(kpi_store)
    /\ kpi_store.data # <<>>

\* C2: a step of the fetch callback triggered by the refresh button or by the
\* date-range dropdown always starts a fetch for the selected date range,
\* whatever the auto-refresh switch, the active tab and the stores are; and
\* every fetch that returns writes both stores with what it returned.
C2_RefreshAndDateChangeAlwaysFetch ==
    [][/\ CallbackStep({"refresh-button", "date-range-dropdown"})
            => /\ last_call'.result = "fetch"
               /\ inflight' = Append(inflight, [group |-> "charts-data-store",
                                                days_back |-> days_back'])
       /\ (last_call'.kind = "response" /\ last_call'.result = "written")
            => /\ Len(last_call'.queries) = Cardinality(QueryNames)
               /\ kpi_store'.type = "dict" /\ charts_store'.type = "dict"
               /\ kpi_store'.days_back \in DateRangeOptions
               /\ charts_store'.days_back = kpi_store'.days_back
               /\ \E i \in 1..Len(inflight) :
                     inflight[i].days_back = kpi_store'.days_back]_vars

C2_Witness ==
    /\ last_call.kind = "callback"
    /\ last_call.trigger_id = "refresh-button"
    /\ last_call.result = "fetch"
    /\ ~auto_refresh
    /\ active_tab = "tab-cost-roi"
    /\ HasData(charts_store) /\ charts_store.days_back = days_back
    /\ Len(inflight) = 1

\* C3: once no fetch is in flight, the stores hold only results of a fetch
\* issued under the date range now selected: the result of a fetch that a
\* date-range change superseded never remains in the stores.
C3_NoStaleResultRemains ==
    (inflight = <<>> /\ HasData(charts_store))
        => (charts_store.days_back = days_back /\ kpi_store.days_back = days_back)

\* the store value behind a tab, for the tabs that have one
GroupValue(t) ==
    IF TabStore(t) = "charts-data-store" THEN charts_store ELSE aux_stores[TabStore(t)]

GroupFresh(t) == GroupValue(t).type = "dict" /\ GroupValue(t).days_back = days_back

\* C4: a step of the fetch callback triggered by a tab switch to a tab that
\* has a dataset group starts no fetch when that group is in its store and
\* was fetched under the selected date range, and starts a fetch of that
\* tab's group otherwise.
C4_TabSwitchFetchesOnlyWhenStale ==
    [][(CallbackStep({"main-tabs"}) /\ TabStore(active_tab') # "none")
        => IF GroupFresh(active_tab')
           THEN inflight' = inflight
           ELSE inflight' = Append(inflight, [group |-> TabStore(active_tab'),
                                              days_back |-> days_back])]_vars

\* C5: at most one fetch of the apps-usage group is in flight at any time.
C5_OneFetchInFlight ==
    Cardinality({i \in 1..Len(inflight) : inflight[i].group = "charts-data-store"}) <= 1

Written == last_call.kind = "response" /\ last_call.result = "written"

StoredTable(name) ==
    IF name = "kpi_summary" THEN kpi_store.data ELSE charts_store.tables[name]

\* C6: when a fetch returns, all seven named queries were issued, each once;
\* the table stored for a query that failed is empty, and the table stored
\* for every other query is exactly the rows the store returned for it.
C6_FailureIsolatedPerQuery ==
    last_call.kind = "response"
        => /\ last_call.result = "written"
           /\ Len(last_call.queries) = Cardinality(QueryNames)
           /\ {last_call.queries[i].name : i \in 1..Len(last_call.queries)} = QueryNames
           /\ charts_store.keys = ChartNameSet
           /\ \A i \in 1..Len(last_call.queries) :
                LET q == last_call.queries[i]
                IN  StoredTable(q.name) =
                        IF warehouse[q.name] = "error" THEN <<>> ELSE WarehouseRows(q)

C6_Witness ==
    /\ Written
    /\ warehouse["top_apps"] = "error"
    /\ warehouse["kpi_summary"] = "error"
    /\ warehouse["usage_heatmap"] = "rows"
    /\ charts_store.tables["top_apps"] = <<>>
    /\ charts_store.tables["usage_heatmap"] # <<>>
    /\ charts_store.tables["user_segmentation"] = WarehouseRows(last_call.queries[7])

\* C7 as stated: every query of a returned fetch was built with the date
\* range the fetch was triggered under, and with the same workspace filter.
C7_AllTablesSameWindow ==
    Written
        => \A i \in 1..Len(last_call.queries) :
              /\ last_call.queries[i].days_back = charts_store.days_back
              /\ last_call.queries[i].workspace = last_call.queries[1].workspace

\* the window of the dau_trend query of the enhanced app, per selectable range
DauWindowEnhanced(d) == CASE d = 7 -> 21 [] d = 30 -> 90 [] d = 90 -> 90 [] d = 180 -> 90

\* C7 amended: every query of a returned fetch other than dau_trend was built
\* with the date range the fetch was triggered under, and all with the same
\* workspace filter; dau_trend was built with that range in the basic app and
\* with min(3 * range, 90) in the enhanced app.
C7_AllTablesSameWindowExceptDau ==
    Written
        => /\ charts_store.days_back \in DateRangeOptions
           /\ \A i \in 1..Len(last_call.queries) :
                LET q == last_call.queries[i]
                IN  /\ q.workspace = last_call.queries[1].workspace
                    /\ q.days_back =
                         IF q.name = "dau_trend" /\ app = "enhanced"
                         THEN DauWindowEnhanced(charts_store.days_back)
                         ELSE charts_store.days_back

C7_Witness ==
    /\ Written
    /\ app = "enhanced"
    /\ charts_store.days_back = 7
    /\ charts_store.tables["dau_trend"] = <<[query |-> "dau_trend", days_back |-> 21]>>
    /\ charts_store.tables["top_apps"] = <<[query |-> "top_apps", days_back |-> 7]>>

(***************************************************************************)
(* Usage heatmap: update_usage_heatmap of both apps.                       *)
(* A source row is [day_name, hour_of_day, click_count]; the query groups  *)
(* by day and hour, so no two rows share both.                             *)
(***************************************************************************)
\* day_order of update_usage_heatmap
day_order == <<"Monday", "Tuesday", "Wednesday", "Thursday", "Friday", "Saturday", "Sunday">>

\* the day names in the order pandas sorts a pivot's string index
SortedDayNames == <<"Friday", "Monday", "Saturday", "Sunday", "Thursday", "Tuesday", "Wednesday">>

\* HOUR(event_time), ascending: the order pandas sorts a pivot's columns
HoursAscending == [i \in 1..24 |-> i - 1]

\* a cell of a DataFrame that holds no value
NaN == -1

Keep(seq, S) == SelectSeq(seq, LAMBDA e : e \in S)

\* df.pivot(index='day_name', columns='hour_of_day', values='click_count')
Pivot(rows) ==
    [index   |-> Keep(SortedDayNames, {r.day_name : r \in rows}),
     columns |-> Keep(HoursAscending, {r.hour_of_day : r \in rows}),
     cell    |-> [d \in {r.day_name : r \in rows}, h \in {r.hour_of_day : r \in rows} |->
                    IF \E r \in rows : r.day_name = d /\ r.hour_of_day = h
                    THEN (CHOOSE r \in rows : r.day_name = d /\ r.hour_of_day = h).click_count
                    ELSE NaN]]

\* .fillna(0)
FillNa0(frame) ==
    [frame EXCEPT !.cell = [d \in {frame.index[i] : i \in 1..Len(frame.index)},
                            h \in {frame.columns[i] : i \in 1..Len(frame.columns)} |->
                               IF frame.cell[d, h] = NaN THEN 0 ELSE frame.cell[d, h]]]

\* .reindex(labels): the rows named by labels, in that order; a label the
\* frame has no row for gets a row of NaN
Reindex(frame, labels) ==
    LET have == {frame.index[i] : i \in 1..Len(frame.index)}
        cols == {frame.columns[i] : i \in 1..Len(frame.columns)}
    IN  [frame EXCEPT !.index = labels,
                      !.cell = [d \in {labels[i] : i \in 1..Len(labels)}, h \in cols |->
                                   IF d \in have THEN frame.cell[d, h] ELSE NaN]]

\* heatmap_data.values: one list per index label, one entry per column
Values(frame) ==
    [i \in 1..Len(frame.index) |->
        [j \in 1..Len(frame.columns) |-> frame.cell[frame.index[i], frame.columns[j]]]]

\* f"{h:02d}:00", as its two digits
HourLabel(h) == <<h \div 10, h % 10>>

\* go.Figure()
EmptyFigure == [made |-> TRUE, empty |-> TRUE, x |-> <<>>, y |-> <<>>, z |-> <<>>]

update_usage_heatmap_basic(rows) ==
    IF rows = {} THEN EmptyFigure
    ELSE LET heatmap_data == Reindex(Pivot(rows), day_order)
         IN  [made |-> TRUE, empty |-> FALSE,
              x |-> heatmap_data.columns,
              y |-> heatmap_data.index,
              z |-> Values(heatmap_data)]

update_usage_heatmap_enhanced(rows) ==
    IF rows = {} THEN EmptyFigure
    ELSE LET filled == FillNa0(Pivot(rows))
             present == {filled.index[i] : i \in 1..Len(filled.index)}
             heatmap_data == Reindex(filled, Keep(day_order, present))
         IN  [made |-> TRUE, empty |-> FALSE,
              x |-> [j \in 1..Len(heatmap_data.columns) |-> HourLabel(heatmap_data.columns[j])],
              y |-> heatmap_data.index,
              z |-> Values(heatmap_data)]

RenderHeatmap ==
    /\ heat_fig = NoFigure
    /\ heat_fig' = IF app = "enhanced" THEN update_usage_heatmap_enhanced(heat_rows)
                   ELSE update_usage_heatmap_basic(heat_rows)
    /\ UNCHANGED <<orchVars, pageVars, viewVars, heat_rows, trendVars, kpiVars, queryVars>>

\* the cells the source rows of the model are drawn from, and their counts
HeatDays == {"Monday", "Wednesday", "Sunday"}
HeatHours == {9, 23}
HeatCounts == {1, 5}

HeatRowSets ==
    {{[day_name |-> c[1], hour_of_day |-> c[2], click_count |-> f[c]] : c \in DOMAIN f} :
        f \in UNION {[cells -> HeatCounts] : cells \in SUBSET (HeatDays \X HeatHours)}}

InitHeatmap ==
    /\ app \in Apps
    /\ warehouse = WarehouseUp
    /\ LayoutInit
    /\ ViewIdle
    /\ PageIdle
    /\ heat_rows \in HeatRowSets
    /\ heat_fig = NoFigure
    /\ TrendIdle /\ KpiIdle /\ QueryIdle

NextHeatmap == RenderHeatmap

SpecHeatmap == InitHeatmap /\ [][NextHeatmap]_vars

SourceCount(rows, d, h) ==
    IF \E r \in rows : r.day_name = d /\ r.hour_of_day = h
    THEN (CHOOSE r \in rows : r.day_name = d /\ r.hour_of_day = h).click_count
    ELSE 0

\* C8: for source rows that are not empty, the figure of the heatmap callback
\* has the 7 rows Monday..Sunday and 24 hour columns; each cell holds the
\* click count of its source row, and 0 when the source has no row for it.
C8_HeatmapIsFull7x24 ==
    (heat_fig.made /\ heat_rows # {})
        => /\ heat_fig.y = day_order
           /\ Len(heat_fig.x) = 24
           /\ Len(heat_fig.z) = 7
           /\ \A i \in 1..Len(heat_fig.z) :
                /\ Len(heat_fig.z[i]) = 24
                /\ \A j \in 1..Len(heat_fig.z[i]) :
                      heat_fig.z[i][j] = SourceCount(heat_rows, day_order[i], j - 1)

(***************************************************************************)
(* Trend charts: update_dau_chart and update_user_cohorts_chart.           *)
(* A source row is [activity_date, first, second]: the day and the two     *)
(* plotted columns (daily_active_users and total_clicks, or new_users and  *)
(* returning_users).  The queries order the rows by activity_date.         *)
(***************************************************************************)
\* the calendar days of the queried range
RangeDays == 1..MaxRangeDays

Column(rows, col) == [i \in 1..Len(rows) |-> rows[i][col]]

\* both callbacks plot the stored rows as they are
TrendFigure(rows, name1, name2) ==
    IF rows = <<>> THEN [made |-> TRUE, empty |-> TRUE, traces |-> <<>>]
    ELSE [made |-> TRUE, empty |-> FALSE,
          traces |-> <<[name |-> name1, x |-> Column(rows, "activity_date"),
                        y |-> Column(rows, "first")],
                       [name |-> name2, x |-> Column(rows, "activity_date"),
                        y |-> Column(rows, "second")]>>]

update_dau_chart(rows) == TrendFigure(rows, "Daily Active Users", "Total Clicks")

update_user_cohorts_chart(rows) == TrendFigure(rows, "New Users", "Returning Users")

RenderDauChart ==
    /\ trend_fig = NoFigure
    /\ trend_fig' = update_dau_chart(trend_rows)
    /\ UNCHANGED <<orchVars, pageVars, viewVars, heatVars, trend_rows, kpiVars, queryVars>>

RenderCohortsChart ==
    /\ trend_fig = NoFigure
    /\ trend_fig' = update_user_cohorts_chart(trend_rows)
    /\ UNCHANGED <<orchVars, pageVars, viewVars, heatVars, trend_rows, kpiVars, queryVars>>

\* the stored tables: rows for any subset of the range's days, ascending
TrendRowSeqs ==
    {[i \in 1..Cardinality(DOMAIN f) |->
        LET day == CHOOSE k \in DOMAIN f : Cardinality({m \in DOMAIN f : m < k}) = i - 1
        IN  [activity_date |-> day, first |-> f[day][1], second |-> f[day][2]]] :
        f \in UNION {[ds -> (1..MaxValue) \X (0..1)] : ds \in SUBSET RangeDays}}

InitTrend ==
    /\ app \in Apps
    /\ warehouse = WarehouseUp
    /\ LayoutInit
    /\ ViewIdle
    /\ PageIdle
    /\ trend_rows \in TrendRowSeqs
    /\ trend_fig = NoFigure
    /\ HeatIdle /\ KpiIdle /\ QueryIdle

NextTrend == RenderDauChart \/ RenderCohortsChart

SpecTrend == InitTrend /\ [][NextTrend]_vars

ValueOn(rows, col, day) ==
    IF \E i \in 1..Len(rows) : rows[i].activity_date = day
    THEN rows[CHOOSE i \in 1..Len(rows) : rows[i].activity_date = day][col]
    ELSE 0

\* C9: for a stored table that is not empty, each trace of a trend or cohort
\* figure has one point per calendar day of the queried range, in ascending
\* date order, with value zero on every day the table has no row for.
C9_TrendZeroFilled ==
    (trend_fig.made /\ trend_rows # <<>>)
        => /\ ~trend_fig.empty
           /\ \A t \in 1..Len(trend_fig.traces) :
                /\ trend_fig.traces[t].x = [k \in RangeDays |-> k]
                /\ trend_fig.traces[t].y =
                     [k \in RangeDays |->
                        ValueOn(trend_rows, IF t = 1 THEN "first" ELSE "second", k)]

(***************************************************************************)
(* KPI summary query of the enhanced app (DataQueries.get_kpi_summary).    *)
(* kpi_counts holds what the two CTEs count; percentages are in tenths.    *)
(***************************************************************************)
\* SQL NULL, and a non-null number of tenths
Null == [null |-> TRUE, tenths |-> 0]
Tenths(t) == [null |-> FALSE, tenths |-> t]

Abs(n) == IF n < 0 THEN -n ELSE n

\* ROUND(num * 100.0 / den, 1) for den # 0: half away from zero, in tenths
Round1(num, den) ==
    IF num >= 0
    THEN (2 * 1000 * num + den) \div (2 * den)
    ELSE -((2 * 1000 * (-num) + den) \div (2 * den))

growth_pct_truncated(cur, prev) ==
    IF prev = 0 THEN Null
    ELSE Tenths(IF cur >= prev THEN (1000 * (cur - prev)) \div prev
                ELSE -((1000 * (prev - cur)) \div prev))

\* ROUND((c.x - p.prev_x) * 100.0 / NULLIF(p.prev_x, 0), 1)
growth_pct(cur, prev) ==
    IF prev = 0 THEN Null ELSE Tenths(Round1(cur - prev, prev))

\* the row of the final SELECT
get_kpi_summary(counts) ==
    [made |-> TRUE,
     total_unique_users |-> counts.users,
     total_interactions |-> counts.interactions,
     prev_users |-> counts.prev_users,
     prev_interactions |-> counts.prev_interactions,
     user_growth_pct |-> growth_pct(counts.users, counts.prev_users),
     interaction_growth_pct |-> growth_pct(counts.interactions, counts.prev_interactions)]

RunKpiSummary ==
    /\ kpi_counts # <<>>
    /\ kpi_row = <<>>
    /\ kpi_row' = get_kpi_summary(kpi_counts)
    /\ UNCHANGED <<orchVars, pageVars, viewVars, heatVars, trendVars, kpi_counts, queryVars>>

InitKpi ==
    /\ app = "enhanced"
    /\ warehouse = WarehouseUp
    /\ LayoutInit
    /\ ViewIdle
    /\ PageIdle
    /\ kpi_counts \in [days_back : DateRangeOptions,
                       users : 0..MaxCount, prev_users : 0..MaxCount,
                       interactions : 0..MaxCount, prev_interactions : 0..MaxCount]
    /\ kpi_row = <<>>
    /\ HeatIdle /\ TrendIdle /\ QueryIdle

NextKpi == RunKpiSummary

SpecKpi == InitKpi /\ [][NextKpi]_vars

\* pct is the growth of cur over prev: null when prev is 0, else the tenth
\* nearest to (cur - prev) * 100 / prev
IsGrowth(pct, cur, prev) ==
    IF prev = 0 THEN pct.null
    ELSE /\ ~pct.null
         /\ 2 * Abs(pct.tenths * prev - 1000 * (cur - prev)) <= prev

\* C10: in the row of the KPI summary query, user_growth_pct and
\* interaction_growth_pct are null when the previous period's count is 0 and
\* otherwise (current - previous) * 100 / previous rounded to one decimal.
C10_GrowthPct ==
    kpi_row # <<>>
        => /\ IsGrowth(kpi_row.user_growth_pct, kpi_counts.users, kpi_counts.prev_users)
           /\ IsGrowth(kpi_row.interaction_growth_pct, kpi_counts.interactions,
                       kpi_counts.prev_interactions)

C10_Witness ==
    /\ kpi_row # <<>>
    /\ kpi_counts.prev_users = 0 /\ kpi_row.user_growth_pct = Null
    /\ kpi_counts.interactions = 1 /\ kpi_counts.prev_interactions = 3
    /\ kpi_row.interaction_growth_pct = Tenths(-667)

(***************************************************************************)
(* Periods of the KPI summary query of the enhanced app.  An audit row is  *)
(* [email, event_date]; event_date is a day number relative to the day the *)
(* query runs on.                                                          *)
(***************************************************************************)
\* CURRENT_DATE: the day the query runs on
CURRENT_DATE == 0

\* user_identity.email of the rows in the model
Emails == {"u1", "u2"}

\* the days on either side of every bound of the two periods, per date range
BoundaryDays ==
    UNION {{CURRENT_DATE - 2 * d - 1, CURRENT_DATE - 2 * d, CURRENT_DATE - d - 1,
            CURRENT_DATE - d, CURRENT_DATE - 1, CURRENT_DATE} : d \in DateRangeOptions}

RECURSIVE SubsetsUpTo(_, _)
SubsetsUpTo(S, n) ==
    IF n = 0 THEN {{}}
    ELSE LET P == SubsetsUpTo(S, n - 1) IN P \cup {p \cup {e} : p \in P, e \in S}

AuditLogs == SubsetsUpTo([email : Emails, event_date : BoundaryDays], MaxEvents)

previous_period_closed(d) ==
    {r \in audit : /\ r.event_date >= CURRENT_DATE - d * 2
                   /\ r.event_date <= CURRENT_DATE - d}

\* WHERE of current_period:  event_date >= CURRENT_DATE - INTERVAL d DAY
\*                       AND event_date <  CURRENT_DATE
current_period(d) ==
    {r \in audit : /\ r.event_date >= CURRENT_DATE - d
                   /\ r.event_date < CURRENT_DATE}

\* WHERE of previous_period: event_date >= CURRENT_DATE - INTERVAL d * 2 DAY
\*                       AND event_date <  CURRENT_DATE - INTERVAL d DAY
previous_period(d) ==
    {r \in audit : /\ r.event_date >= CURRENT_DATE - d * 2
                   /\ r.event_date < CURRENT_DATE - d}

\* COUNT(DISTINCT user_identity.email)
CountDistinctEmail(rows) == Cardinality({r.email : r \in rows})

\* the SELECT lists of the two CTEs
kpi_periods(d) ==
    [days_back         |-> d,
     users             |-> CountDistinctEmail(current_period(d)),
     interactions      |-> Cardinality(current_period(d)),
     prev_users        |-> CountDistinctEmail(previous_period(d)),
     prev_interactions |-> Cardinality(previous_period(d))]

\* execute_query(get_kpi_summary(d)): the two CTEs are evaluated
RunKpiPeriods(d) ==
    /\ kpi_counts = <<>>
    /\ kpi_counts' = kpi_periods(d)
    /\ UNCHANGED <<orchVars, pageVars, viewVars, heatVars, trendVars, kpi_row, queryVars>>

InitKpiPeriods ==
    /\ app = "enhanced"
    /\ warehouse = WarehouseUp
    /\ LayoutInit
    /\ ViewIdle
    /\ PageIdle
    /\ audit \in AuditLogs
    /\ SegIdle /\ CohortIdle /\ TopIdle
    /\ KpiIdle /\ HeatIdle /\ TrendIdle

NextKpiPeriods ==
    \/ \E d \in DateRangeOptions : RunKpiPeriods(d)
    \/ RunKpiSummary

SpecKpiPeriods == InitKpiPeriods /\ [][NextKpiPeriods]_vars

RowsOn(days) == {r \in audit : r.event_date \in days}

\* C11: for every date range d the KPI summary counts its current period over
\* the days [today - d, today) and its previous period over the days
\* [today - 2d, today - d): two windows of d days each, adjacent, sharing no
\* day, neither holding today.
C11_KpiWindows ==
    kpi_counts # <<>>
        => LET d    == kpi_counts.days_back
               cur  == (CURRENT_DATE - d)..(CURRENT_DATE - 1)
               prev == (CURRENT_DATE - 2 * d)..(CURRENT_DATE - d - 1)
           IN  /\ kpi_counts.interactions = Cardinality(RowsOn(cur))
               /\ kpi_counts.users = Cardinality({r.email : r \in RowsOn(cur)})
               /\ kpi_counts.prev_interactions = Cardinality(RowsOn(prev))
               /\ kpi_counts.prev_users = Cardinality({r.email : r \in RowsOn(prev)})
               /\ Cardinality(cur) = d /\ Cardinality(prev) = d
               /\ cur \cap prev = {}
               /\ cur \cup prev = (CURRENT_DATE - 2 * d)..(CURRENT_DATE - 1)

C11_Witness ==
    /\ kpi_counts # <<>>
    /\ kpi_counts.days_back = 7
    /\ audit = {[email |-> "u1", event_date |-> CURRENT_DATE - 7],
                [email |-> "u2", event_date |-> CURRENT_DATE]}
    /\ kpi_counts.users = 1 /\ kpi_counts.interactions = 1
    /\ kpi_counts.prev_users = 0 /\ kpi_counts.prev_interactions = 0

(***************************************************************************)
(* User segmentation query (DataQueries.get_user_segmentation, the same in *)
(* both apps).  user_clicks maps each user of the date range to the count  *)
(* of its rows; a result row is [user_email, total_clicks, user_segment].  *)
(***************************************************************************)
\* LIMIT {limit}, limit=100
SEGMENTATION_LIMIT == 100

user_segment_exclusive(n) ==
    CASE n > 100 -> "Power User"
      [] n > 50  -> "Active User"
      [] n > 10  -> "Regular User"
      [] OTHER   -> "Casual User"

\* CASE WHEN count >= 100 ... WHEN count >= 50 ... WHEN count >= 10 ... ELSE
\* (SQL takes the first WHEN that holds)
user_segment(n) ==
    IF n >= 100 THEN "Power User"
    ELSE IF n >= 50 THEN "Active User"
    ELSE IF n >= 10 THEN "Regular User"
    ELSE "Casual User"

\* the sequences that hold each element of R once, ordered by `key' descending:
\* ORDER BY key DESC leaves the order of equal keys to the engine
OrderByDesc(R, key) ==
    {s \in [1..Cardinality(R) -> R] :
        /\ \A i, j \in DOMAIN s : i # j => s[i] # s[j]
        /\ \A i, j \in DOMAIN s : i < j => s[i][key] >= s[j][key]}

\* LIMIT n
Limit(s, n) == SubSeq(s, 1, Min(Len(s), n))

\* GROUP BY user_identity.email with the SELECT list
SegmentationGroups(clicks) ==
    {[user_email |-> u, total_clicks |-> clicks[u], user_segment |-> user_segment(clicks[u])] :
        u \in DOMAIN clicks}

get_user_segmentation(clicks) ==
    {Limit(s, SEGMENTATION_LIMIT) : s \in OrderByDesc(SegmentationGroups(clicks), "total_clicks")}

RunUserSegmentation ==
    /\ seg_rows = NoRows
    /\ \E rows \in get_user_segmentation(user_clicks) :
          seg_rows' = [made |-> TRUE, rows |-> rows]
    /\ UNCHANGED <<orchVars, pageVars, viewVars, heatVars, trendVars, kpiVars, audit, user_clicks,
                   cohortVars, topVars>>

InitSegmentation ==
    /\ app \in Apps
    /\ warehouse = WarehouseUp
    /\ LayoutInit
    /\ ViewIdle
    /\ PageIdle
    /\ user_clicks \in [Emails -> 1..MaxClicks]
    /\ seg_rows = NoRows
    /\ audit = {} /\ CohortIdle /\ TopIdle
    /\ KpiIdle /\ HeatIdle /\ TrendIdle

NextSegmentation == RunUserSegmentation

SpecSegmentation == InitSegmentation /\ [][NextSegmentation]_vars

\* C12: every row of the segmentation result carries exactly one of the four
\* bands, decided by the user's click count alone: 100 and above is Power,
\* 50..99 Active, 10..49 Regular, below 10 Casual.
C12_SegmentBands ==
    seg_rows.made
        => \A i \in 1..Len(seg_rows.rows) :
              LET n    == seg_rows.rows[i].total_clicks
                  band == seg_rows.rows[i].user_segment
              IN  /\ n = user_clicks[seg_rows.rows[i].user_email]
                  /\ band \in {"Power User", "Active User", "Regular User", "Casual User"}
                  /\ (band = "Power User") <=> (n >= 100)
                  /\ (band = "Active User") <=> (n \in 50..99)
                  /\ (band = "Regular User") <=> (n \in 10..49)
                  /\ (band = "Casual User") <=> (n < 10)

C12_Witness ==
    /\ seg_rows.made
    /\ seg_rows.rows = <<[user_email |-> "u2", total_clicks |-> 100, user_segment |-> "Power User"],
                         [user_email |-> "u1", total_clicks |-> 99, user_segment |-> "Active User"]>>

(***************************************************************************)
(* User cohorts query (DataQueries.get_user_cohorts of both apps), over    *)
(* the audit rows that pass the query's fixed filters.  DATE(event_time)   *)
(* and event_date name the same day of a row.                              *)
(***************************************************************************)
AuditEmails == {r.email : r \in audit}

user_first_interaction_latest ==
    [u \in AuditEmails |->
        CHOOSE d \in {r.event_date : r \in audit} :
            /\ \E r \in audit : r.email = u /\ r.event_date = d
            /\ \A r \in audit : r.email = u => r.event_date <= d]

\* the CTE: MIN(DATE(event_time)) per user, over the whole log
user_first_interaction ==
    [u \in AuditEmails |->
        CHOOSE d \in {r.event_date : r \in audit} :
            /\ \E r \in audit : r.email = u /\ r.event_date = d
            /\ \A r \in audit : r.email = u => r.event_date >= d]

\* the elements of a set of numbers, ascending
Ascending(S) ==
    [i \in 1..Cardinality(S) |->
        CHOOSE k \in S : Cardinality({m \in S : m < k}) = i - 1]

\* WHERE a.event_date >= CURRENT_DATE - INTERVAL d DAY
CohortRange(d) == {r \in audit : r.event_date >= CURRENT_DATE - d}

CohortRow_returning_from_first_day(a, d, day) ==
    LET on  == {r \in CohortRange(d) : r.event_date = day}
        new == {r.email : r \in {x \in on : x.event_date = user_first_interaction[x.email]}}
        ret == {r.email : r \in {x \in on : x.event_date >= user_first_interaction[x.email]}}
    IN  IF a = "enhanced"
        THEN [activity_date |-> day, new_users |-> Cardinality(new),
              returning_users |-> Cardinality(ret),
              total_users |-> Cardinality({r.email : r \in on})]
        ELSE [activity_date |-> day, new_users |-> Cardinality(new),
              returning_users |-> Cardinality(ret)]

\* one row of GROUP BY DATE(a.event_time); total_users is selected by the
\* enhanced app only
CohortRow(a, d, day) ==
    LET on  == {r \in CohortRange(d) : r.event_date = day}
        new == {r.email : r \in {x \in on : x.event_date = user_first_interaction[x.email]}}
        ret == {r.email : r \in {x \in on : x.event_date > user_first_interaction[x.email]}}
    IN  IF a = "enhanced"
        THEN [activity_date |-> day, new_users |-> Cardinality(new),
              returning_users |-> Cardinality(ret),
              total_users |-> Cardinality({r.email : r \in on})]
        ELSE [activity_date |-> day, new_users |-> Cardinality(new),
              returning_users |-> Cardinality(ret)]

\* ORDER BY activity_date ASC
get_user_cohorts(a, d) ==
    LET days == Ascending({r.event_date : r \in CohortRange(d)})
    IN  [i \in 1..Len(days) |-> CohortRow(a, d, days[i])]

RunUserCohorts(d) ==
    /\ cohort_rows = NoRows
    /\ cohort_rows' = [made |-> TRUE, days_back |-> d, rows |-> get_user_cohorts(app, d)]
    /\ UNCHANGED <<orchVars, pageVars, viewVars, heatVars, trendVars, kpiVars, audit, segVars, topVars>>

InitCohorts ==
    /\ app \in Apps
    /\ warehouse = WarehouseUp
    /\ LayoutInit
    /\ ViewIdle
    /\ PageIdle
    /\ audit \in AuditLogs
    /\ SegIdle /\ CohortIdle /\ TopIdle
    /\ KpiIdle /\ HeatIdle /\ TrendIdle

NextCohorts == \E d \in DateRangeOptions : RunUserCohorts(d)

SpecCohorts == InitCohorts /\ [][NextCohorts]_vars

\* the day of a user's earliest audit row
FirstSeen(u) ==
    CHOOSE d \in {r.event_date : r \in audit} :
        /\ [email |-> u, event_date |-> d] \in audit
        /\ \A r \in audit : r.email = u => d <= r.event_date

ActiveOn(day) == {r.email : r \in {x \in audit : x.event_date = day}}

RECURSIVE SumNewUsers(_)
SumNewUsers(rows) ==
    IF rows = <<>> THEN 0 ELSE rows[1].new_users + SumNewUsers(Tail(rows))

\* the users with a row in the queried range [today - d, ...)
UsersInRange(d) == {r.email : r \in {x \in audit : x.event_date >= CURRENT_DATE - d}}

\* each result row counts as new the users active that day whose first-seen
\* date is that day, and as returning those whose first-seen date is earlier
CohortRule ==
    \A i \in 1..Len(cohort_rows.rows) :
        LET row == cohort_rows.rows[i]
        IN  /\ row.new_users =
                 Cardinality({u \in ActiveOn(row.activity_date) :
                                FirstSeen(u) = row.activity_date})
            /\ row.returning_users =
                 Cardinality({u \in ActiveOn(row.activity_date) :
                                FirstSeen(u) < row.activity_date})

\* C13 as stated: the rule above, and every user of the result is counted as
\* new on exactly one of its days: the new_users of all rows add up to the
\* number of users active in the range.
C13_NewOnExactlyOneDay ==
    cohort_rows.made
        => /\ CohortRule
           /\ SumNewUsers(cohort_rows.rows) = Cardinality(UsersInRange(cohort_rows.days_back))

\* C13 amended: the rule above, and a user is counted as new on exactly one
\* day of the result when its first-seen date lies in the queried range and
\* on none when it lies before: the new_users of all rows add up to the
\* number of users first seen in the range.
C13_NewAtMostOnce ==
    cohort_rows.made
        => /\ CohortRule
           /\ SumNewUsers(cohort_rows.rows) =
                Cardinality({u \in UsersInRange(cohort_rows.days_back) :
                               FirstSeen(u) >= CURRENT_DATE - cohort_rows.days_back})

C13_Witness ==
    /\ cohort_rows.made
    /\ cohort_rows.days_back = 7
    /\ audit = {[email |-> "u1", event_date |-> CURRENT_DATE - 7],
                [email |-> "u1", event_date |-> CURRENT_DATE - 1]}
    /\ Len(cohort_rows.rows) = 2
    /\ cohort_rows.rows[1].new_users = 1 /\ cohort_rows.rows[1].returning_users = 0
    /\ cohort_rows.rows[2].new_users = 0 /\ cohort_rows.rows[2].returning_users = 1

(***************************************************************************)
(* Top apps query (DataQueries.get_top_apps).  app_clicks maps each app    *)
(* with audit rows in the date range to the number of those rows; a result *)
(* row is [app_name, click_count, percentage_of_total], the percentage in  *)
(* hundredths.                                                             *)
(***************************************************************************)
\* get_top_apps(days_back=30, limit=10)
TOP_APPS_LIMIT == 10

\* app names of the model
AppNames == 1..MaxApps

RECURSIVE SumOver(_, _)
SumOver(f, S) ==
    IF S = {} THEN 0
    ELSE LET e == CHOOSE x \in S : TRUE IN f[e] + SumOver(f, S \ {e})

\* ROUND(num * 100.0 / den, 2) for num >= 0 and den > 0, in hundredths
Round2(num, den) == (2 * 10000 * num + den) \div (2 * den)

\* the window of SUM(...) OVER () taken after LIMIT
TopAppsWindow_after_limit(clicks, limit) ==
    IF Cardinality(DOMAIN clicks) <= limit THEN DOMAIN clicks
    ELSE CHOOSE S \in SUBSET DOMAIN clicks :
            /\ Cardinality(S) = limit
            /\ \A a \in S, b \in (DOMAIN clicks) \ S : clicks[a] >= clicks[b]

\* SUM(COUNT) OVER (): the window is every group of the GROUP BY; window
\* functions are evaluated before ORDER BY and LIMIT
TopAppsWindow(clicks, limit) == DOMAIN clicks

\* GROUP BY app name with the SELECT list
TopAppsGroups(clicks, limit) ==
    {[app_name |-> a, click_count |-> clicks[a],
      percentage_of_total |->
          Round2(clicks[a], SumOver(clicks, TopAppsWindow(clicks, limit)))] :
        a \in DOMAIN clicks}

\* ORDER BY click_count DESC LIMIT {limit}
get_top_apps(clicks, limit) ==
    {Limit(s, limit) : s \in OrderByDesc(TopAppsGroups(clicks, limit), "click_count")}

\* the limits the query is built with: the default the fetch callbacks use,
\* and limits small enough for the model's apps to exceed
TopAppsLimits == (1..MaxApps) \cup {TOP_APPS_LIMIT}

RunTopApps(limit) ==
    /\ top_rows = NoRows
    /\ \E rows \in get_top_apps(app_clicks, limit) :
          top_rows' = [made |-> TRUE, limit |-> limit, rows |-> rows]
    /\ UNCHANGED <<orchVars, pageVars, viewVars, heatVars, trendVars, kpiVars, audit, segVars, cohortVars,
                   app_clicks>>

InitTopApps ==
    /\ app \in Apps
    /\ warehouse = WarehouseUp
    /\ LayoutInit
    /\ ViewIdle
    /\ PageIdle
    /\ app_clicks \in UNION {[S -> 1..MaxAppClicks] : S \in SUBSET AppNames}
    /\ top_rows = NoRows
    /\ audit = {} /\ SegIdle /\ CohortIdle
    /\ KpiIdle /\ HeatIdle /\ TrendIdle

NextTopApps == \E limit \in TopAppsLimits : RunTopApps(limit)

SpecTopApps == InitTopApps /\ [][NextTopApps]_vars

RECURSIVE SumClicks(_)
SumClicks(rows) == IF rows = <<>> THEN 0 ELSE rows[1].click_count + SumClicks(Tail(rows))

\* pct, in hundredths, is the hundredth nearest to count * 100 / total
IsPercentage(pct, count, total) == 2 * Abs(pct * total - 10000 * count) <= total

\* at most `limit' rows, those of the apps with the most clicks, one per app,
\* in descending order of click count
TopRanked ==
    LET rows == top_rows.rows
        in_result == {rows[i].app_name : i \in 1..Len(rows)}
    IN  /\ Len(rows) = Min(top_rows.limit, Cardinality(DOMAIN app_clicks))
        /\ Cardinality(in_result) = Len(rows)
        /\ \A i \in 1..Len(rows) : rows[i].click_count = app_clicks[rows[i].app_name]
        /\ \A i, j \in 1..Len(rows) : i < j => rows[i].click_count >= rows[j].click_count
        /\ \A a \in in_result, b \in (DOMAIN app_clicks) \ in_result :
              app_clicks[a] >= app_clicks[b]

\* C14 as stated: the result is the top `limit' apps by click count,
\* descending, and each row's percentage is its count * 100 over the sum of
\* the counts of the returned rows (to two decimals).
C14_PercentageOfReturnedRows ==
    top_rows.made
        => /\ TopRanked
           /\ \A i \in 1..Len(top_rows.rows) :
                 IsPercentage(top_rows.rows[i].percentage_of_total,
                              top_rows.rows[i].click_count, SumClicks(top_rows.rows))

\* C14 amended: the result is the top `limit' apps by click count,
\* descending, and each row's percentage is its count * 100 over the sum of
\* the counts of every app of the date range, returned or cut by the limit
\* (to two decimals).
C14_PercentageOfAllApps ==
    top_rows.made
        => /\ TopRanked
           /\ \A i \in 1..Len(top_rows.rows) :
                 IsPercentage(top_rows.rows[i].percentage_of_total,
                              top_rows.rows[i].click_count,
                              SumOver(app_clicks, DOMAIN app_clicks))

C14_Witness ==
    /\ top_rows.made
    /\ top_rows.limit = 2
    /\ app_clicks = (1 :> 1) @@ (2 :> 3) @@ (3 :> 2)
    /\ top_rows.rows = <<[app_name |-> 2, click_count |-> 3, percentage_of_total |-> 5000],
                         [app_name |-> 3, click_count |-> 2, percentage_of_total |-> 3333]>>

(***************************************************************************)
(* Segmentation table and KPI cards: update_user_segmentation_table and    *)
(* update_kpi_cards of both apps.  The table's input is the rows stored    *)
(* under charts_data['user_segmentation'], in the order the query returned *)
(* them.                                                                   *)
(***************************************************************************)
\* df.head(n)
DataFrameHead_all(rows, n) == rows

DataFrameHead(rows, n) == SubSeq(rows, 1, Min(Len(rows), n))

\* df.head(20) in the enhanced app, df.head(25) in the basic app
SegmentationTableRows(a) == IF a = "enhanced" THEN 20 ELSE 25

\* html.Div("No data available")
NoDataAvailable == [made |-> TRUE, no_data |-> TRUE, rows |-> <<>>]

update_user_segmentation_table(a, rows) ==
    IF rows = <<>> THEN NoDataAvailable
    ELSE [made |-> TRUE, no_data |-> FALSE,
          rows |-> DataFrameHead(rows, SegmentationTableRows(a))]

\* kpi_data.get(key, default)
Get(row, key, default) == IF key \in DOMAIN row THEN row[key] ELSE default

\* the title and the number of each card; "Loading..." for None and for {}
update_kpi_cards(a, kpi_data) ==
    IF kpi_data.type = "None" \/ kpi_data.data = <<>>
    THEN [made |-> TRUE, loading |-> TRUE, values |-> <<>>]
    ELSE LET row == kpi_data.data[1]
         IN  [made |-> TRUE, loading |-> FALSE,
              values |-> <<Get(row, "total_unique_users", 0),
                           Get(row, "total_unique_apps", 0),
                           Get(row, "total_interactions", 0),
                           Get(row, "overall_error_rate", 0)>>]

RenderSegmentationTable ==
    /\ seg_rows.made
    /\ seg_table = NotRendered
    /\ seg_table' = update_user_segmentation_table(app, seg_rows.rows)
    /\ UNCHANGED <<orchVars, pageVars, kpi_cards, embedVars, figures, heatVars, trendVars, kpiVars, queryVars>>

RenderKpiCards ==
    /\ kpi_cards = NotRendered
    /\ kpi_cards' = update_kpi_cards(app, kpi_store)
    /\ UNCHANGED <<orchVars, pageVars, seg_table, embedVars, figures, heatVars, trendVars, kpiVars, queryVars>>

\* stored segmentation tables: n users, the i-th with top - step * (i - 1)
\* clicks (at least 1), as the query returns them
Max(a, b) == IF a > b THEN a ELSE b

SegClicks(n, top, step) == [i \in 1..n |-> Max(1, top - step * (i - 1))]

StoredSegmentation(clicks) ==
    [i \in DOMAIN clicks |-> [user_email |-> i, total_clicks |-> clicks[i],
                              user_segment |-> user_segment(clicks[i])]]

SegTops == {9, 60, 120}
SegSteps == {0, 1, 5}

\* KPI stores of the model: a fetched row, {} and no data
KpiStores ==
    {KpiData(<<get_kpi_summary([days_back |-> DEFAULT_DAYS_BACK, users |-> u, prev_users |-> 1,
                                interactions |-> 2 * u, prev_interactions |-> 1])>>,
             DEFAULT_DAYS_BACK) : u \in 1..2}
    \cup {EmptyKpi(DEFAULT_DAYS_BACK)}

InitSegTable ==
    /\ app \in Apps
    /\ warehouse = WarehouseUp
    /\ days_back = DEFAULT_DAYS_BACK
    /\ auto_refresh = TRUE
    /\ active_tab = "tab-apps-usage"
    /\ kpi_store \in KpiStores
    /\ charts_store = NoneCharts
    /\ aux_stores = [s \in AuxStoreIds |-> NoneStore]
    /\ inflight = <<>>
    /\ last_call = [kind |-> "none", triggered |-> <<>>, trigger_id |-> "", result |-> "", queries |-> <<>>]
    /\ \E n \in 0..MaxSegRows, top \in SegTops, step \in SegSteps :
          /\ user_clicks = SegClicks(n, top, step)
          /\ seg_rows = [made |-> TRUE, rows |-> StoredSegmentation(SegClicks(n, top, step))]
    /\ ViewIdle
    /\ PageIdle
    /\ audit = {} /\ CohortIdle /\ TopIdle
    /\ KpiIdle /\ HeatIdle /\ TrendIdle

NextSegTable == RenderSegmentationTable \/ RenderKpiCards

SpecSegTable == InitSegTable /\ [][NextSegTable]_vars

\* the table shows the first min(cap, n) stored rows, which are rows of
\* highest total_clicks, in descending order
ShowsTopRows(table, stored, cap) ==
    /\ Len(table.rows) = Min(cap, Len(stored))
    /\ \A i \in 1..Len(table.rows) : table.rows[i] = stored[i]
    /\ \A i, j \in 1..Len(table.rows) :
          i < j => table.rows[i].total_clicks >= table.rows[j].total_clicks
    /\ \A i \in 1..Len(table.rows), j \in (Len(table.rows) + 1)..Len(stored) :
          table.rows[i].total_clicks >= stored[j].total_clicks

\* C15: the segmentation table shows at most 20 rows in the enhanced app and
\* 25 in the basic app, the highest-ranked rows of the stored table in
\* descending order of total clicks; the step that renders it leaves the KPI
\* store and the rendered KPI cards as they were.
C15_SegmentationTableCap ==
    [][(seg_table' # seg_table)
        => /\ seg_table'.made
           /\ Len(seg_table'.rows) <= (IF app = "enhanced" THEN 20 ELSE 25)
           /\ ShowsTopRows(seg_table', seg_rows.rows, IF app = "enhanced" THEN 20 ELSE 25)
           /\ UNCHANGED <<kpi_store, kpi_cards, seg_rows>>]_vars

C15_Witness ==
    /\ seg_table.made
    /\ app = "enhanced"
    /\ Len(seg_rows.rows) = 26
    /\ Len(seg_table.rows) = 20
    /\ seg_table.rows[20].total_clicks = 25
    /\ seg_rows.rows[21].total_clicks = 20
    /\ kpi_cards.made /\ ~kpi_cards.loading
    /\ kpi_cards.values[1] = 2

(***************************************************************************)
(* Embedded dashboard tabs of the enhanced app: render_tab_content and     *)
(* create_embedded_dashboard_tab.  A dict of the YAML file is a function   *)
(* on the keys it holds.                                                   *)
(***************************************************************************)
\* the dashboard keys render_tab_content passes for the tabs of main-tabs
DashboardKeys == {"logfood_analytics", "infrastructure_metrics"}

\* f"{dashboard_key.upper()}_URL"
EnvKey(dashboard_key) ==
    CASE dashboard_key = "logfood_analytics"      -> "LOGFOOD_ANALYTICS_URL"
      [] dashboard_key = "infrastructure_metrics" -> "INFRASTRUCTURE_METRICS_URL"

os_getenv_default_first(name, default) ==
    IF default # "" THEN default
    ELSE IF name \in DOMAIN environ THEN environ[name] ELSE default

\* os.getenv(name, default)
os_getenv(name, default) == IF name \in DOMAIN environ THEN environ[name] ELSE default

create_embedded_dashboard_tab_url_only(dashboard_key) ==
    LET cfg == Get(dashboard_config, dashboard_key, <<>>)
        url == os_getenv(EnvKey(dashboard_key), Get(cfg, "url", ""))
    IN  IF url # ""
        THEN [made |-> TRUE, mode |-> "embedded", key |-> dashboard_key, src |-> url]
        ELSE [made |-> TRUE, mode |-> "placeholder", key |-> dashboard_key, src |-> ""]

\* the iframe of the dashboard (mode "embedded", src the url), or the
\* "Configuration Required" placeholder
create_embedded_dashboard_tab(dashboard_key) ==
    LET cfg     == Get(dashboard_config, dashboard_key, <<>>)
        enabled == Get(cfg, "enabled", FALSE)
        url     == os_getenv(EnvKey(dashboard_key), Get(cfg, "url", ""))
    IN  IF url # "" /\ enabled
        THEN [made |-> TRUE, mode |-> "embedded", key |-> dashboard_key, src |-> url]
        ELSE [made |-> TRUE, mode |-> "placeholder", key |-> dashboard_key, src |-> ""]

\* the tabs built from charts of the app itself
NativeTab(t) == [made |-> TRUE, mode |-> "native", key |-> t, src |-> ""]

render_tab_content(t) ==
    CASE t = "tab-logfood-1" -> create_embedded_dashboard_tab("logfood_analytics")
      [] t = "tab-logfood-2" -> create_embedded_dashboard_tab("infrastructure_metrics")
      [] OTHER               -> NativeTab(t)

\* active_tab of main-tabs changes (or the page loads): render_tab_content
RenderTabContent(t) ==
    /\ IF tab_content = NotRendered THEN t = active_tab ELSE t # active_tab
    /\ active_tab' = t
    /\ tab_content' = render_tab_content(t)
    /\ UNCHANGED <<app, days_back, auto_refresh, kpi_store, charts_store, aux_stores,
                   inflight, last_call, warehouse>>
    /\ UNCHANGED <<seg_table, kpi_cards, figures, dashboard_config, environ,
                   heatVars, trendVars, kpiVars, queryVars, pageVars>>

\* what dashboard_config.yaml may hold for one dashboard, and the values the
\* url variable of a dashboard may be set to
DashboardDicts ==
    {u @@ e : u \in {<<>>, [url |-> ""], [url |-> "https://file"]},
              e \in {<<>>, [enabled |-> TRUE], [enabled |-> FALSE]}}

EnvValues == {"", "https://env"}

InitEmbed ==
    /\ app = "enhanced"
    /\ warehouse = WarehouseUp
    /\ LayoutInit
    /\ seg_table = NotRendered /\ kpi_cards = NotRendered /\ FiguresIdle
    /\ dashboard_config \in UNION {[S -> DashboardDicts] : S \in SUBSET DashboardKeys}
    /\ environ \in UNION {[S -> EnvValues] : S \in SUBSET {EnvKey(k) : k \in DashboardKeys}}
    /\ tab_content = NotRendered
    /\ PageIdle
    /\ QueryIdle /\ KpiIdle /\ HeatIdle /\ TrendIdle

NextEmbed == \E t \in TabIds : RenderTabContent(t)

SpecEmbed == InitEmbed /\ [][NextEmbed]_vars

\* the url of a dashboard: the environment variable when set, else the value
\* of the file, else the empty string
ResolvedUrl(k) ==
    IF EnvKey(k) \in DOMAIN environ THEN environ[EnvKey(k)]
    ELSE IF k \in DOMAIN dashboard_config /\ "url" \in DOMAIN dashboard_config[k]
    THEN dashboard_config[k].url
    ELSE ""

EnabledFlag(k) ==
    /\ k \in DOMAIN dashboard_config
    /\ "enabled" \in DOMAIN dashboard_config[k]
    /\ dashboard_config[k].enabled

C17_UrlResolutionFixed ==
    [][/\ UNCHANGED <<environ, dashboard_config>>
       /\ (tab_content'.made /\ tab_content'.key \in DashboardKeys)
            => /\ tab_content'.mode = "embedded"
                    => tab_content'.src = ResolvedUrl(tab_content'.key)
               /\ (tab_content'.mode = "placeholder" /\ EnabledFlag(tab_content'.key))
                    => ResolvedUrl(tab_content'.key) = ""]_vars

C17_Witness ==
    /\ tab_content.made
    /\ tab_content.key = "infrastructure_metrics"
    /\ tab_content.mode = "embedded"
    /\ tab_content.src = "https://env"
    /\ dashboard_config["infrastructure_metrics"] = [url |-> "https://file", enabled |-> TRUE]

(***************************************************************************)
(* SpecTriggers: two inputs of the fetch callback change in the same       *)
(* cycle, so that Dash calls it once with both in ctx.triggered.  The code *)
(* fixes no order of ctx.triggered, so the model takes both.               *)
(***************************************************************************)
\* the Inputs of the fetch callback (main-tabs in the enhanced app only)
FetchInputs(a) ==
    {"interval-component", "refresh-button", "date-range-dropdown"}
    \cup (IF a = "enhanced" THEN {"main-tabs"} ELSE {})

InList(id, ids) == \E i \in 1..Len(ids) : ids[i] = id

\* two inputs change at once; d and t are the new values of the dropdown and
\* of main-tabs, used when these are among the changed inputs
SimultaneousTriggers(ids, d, t) ==
    /\ Started
    /\ Len(ids) = 2 /\ ids[1] # ids[2]
    /\ \A i \in 1..2 : ids[i] \in FetchInputs(app)
    /\ IF InList("date-range-dropdown", ids) THEN d # days_back ELSE d = days_back
    /\ IF InList("main-tabs", ids) THEN t \in AppTabs(app) /\ t # active_tab
       ELSE t = active_tab
    /\ days_back' = d
    /\ active_tab' = t
    /\ InvokeTriggered(ids, d, t)
    /\ UNCHANGED auto_refresh

InitTriggers ==
    /\ app \in Apps
    /\ warehouse = WarehouseUp
    /\ LayoutInit
    /\ ViewIdle
    /\ PageIdle
    /\ HeatIdle /\ TrendIdle /\ KpiIdle /\ QueryIdle

NextTriggers ==
    \/ InitialLoad
    \/ ToggleAutoRefresh
    \/ \E ids \in FetchInputs("enhanced") \X FetchInputs("enhanced"),
          d \in DateRangeOptions, t \in TabIds : SimultaneousTriggers(ids, d, t)
    \/ \E i \in 1..MaxInFlight : Complete(i)

SpecTriggers == InitTriggers /\ [][NextTriggers]_vars

\* C18: a step of the fetch callback with two triggers, one of which is the
\* refresh button or the date-range dropdown, starts a fetch for the selected
\* date range, whichever trigger is reported first.
C18_ForcingTriggerDominates ==
    [][(/\ last_call'.kind = "callback"
        /\ Len(last_call'.triggered) = 2
        /\ \/ InList("refresh-button", last_call'.triggered)
           \/ InList("date-range-dropdown", last_call'.triggered))
        => /\ last_call'.result = "fetch"
           /\ inflight' = Append(inflight, [group |-> "charts-data-store",
                                            days_back |-> days_back'])]_vars

(***************************************************************************)
(* Claims about what a completed fetch leaves in the stores.               *)
(***************************************************************************)
\* the rows of one table are rows of the query `name' built for a fetch
\* under date range d
RowsOfFetch(rows, name, d) ==
    \A i \in 1..Len(rows) :
        /\ rows[i].query = name
        /\ rows[i].days_back =
             IF name = "dau_trend" /\ app = "enhanced" THEN DauWindowEnhanced(d) ELSE d

\* C19: the two stores always hold the return value of one and the same
\* invocation: both unset, or both written together; and when a fetch wrote
\* them, the KPI record and each of the six chart tables hold rows of that
\* fetch's queries only, never rows of a fetch under another date range.
C19_GroupReplacedWhole ==
    /\ kpi_store.type = charts_store.type
    /\ kpi_store.days_back = charts_store.days_back
    /\ HasData(charts_store)
        => /\ charts_store.days_back \in DateRangeOptions
           /\ RowsOfFetch(kpi_store.data, "kpi_summary", charts_store.days_back)
           /\ \A n \in ChartNameSet :
                 RowsOfFetch(charts_store.tables[n], n, charts_store.days_back)
           /\ charts_store.keys \in {ChartNameSet, {}}

C19_Witness ==
    /\ app = "enhanced"
    /\ last_call.kind = "response"
    /\ inflight = <<>>
    /\ days_back = 90
    /\ charts_store.days_back = 7
    /\ kpi_store.data = <<[query |-> "kpi_summary", days_back |-> 7]>>
    /\ charts_store.tables["dau_trend"] = <<[query |-> "dau_trend", days_back |-> 21]>>
    /\ charts_store.tables["user_segmentation"] = <<[query |-> "user_segmentation", days_back |-> 7]>>

(***************************************************************************)
(* SpecRender: the callbacks fed by the two stores.  Each runs when its    *)
(* store changes and on page load.  A chart figure is represented here by  *)
(* whether it is the empty go.Figure() or a plot of the stored rows.       *)
(***************************************************************************)
\* not charts_data or name not in charts_data
NoChartsData(charts_data, name) ==
    \/ charts_data.type = "None"
    \/ charts_data.keys = {}
    \/ name \notin charts_data.keys

\* go.Figure(), a figure with traces, and a callback that raised
BlankFigure == [made |-> TRUE, empty |-> TRUE, raised |-> FALSE]
PlottedFigure == [made |-> TRUE, empty |-> FALSE, raised |-> FALSE]
CallbackError == [made |-> TRUE, empty |-> FALSE, raised |-> TRUE]

chart_callback_no_empty_check(name, charts_data) ==
    IF NoChartsData(charts_data, name) THEN BlankFigure
    ELSE IF charts_data.tables[name] = <<>> THEN CallbackError
    ELSE PlottedFigure

\* the guards every chart callback starts with:
\*   if not charts_data or name not in charts_data: return go.Figure()
\*   df = pd.DataFrame(charts_data[name]);  if df.empty: return go.Figure()
chart_callback(name, charts_data) ==
    IF NoChartsData(charts_data, name) THEN BlankFigure
    ELSE IF charts_data.tables[name] = <<>> THEN BlankFigure
    ELSE PlottedFigure

\* update_user_segmentation_table, from the store
segmentation_table_callback(a, charts_data) ==
    IF NoChartsData(charts_data, "user_segmentation") THEN NoDataAvailable
    ELSE update_user_segmentation_table(a, charts_data.tables["user_segmentation"])

UpdateChart(name) ==
    /\ figures[name] # chart_callback(name, charts_store)
    /\ figures' = [figures EXCEPT ![name] = chart_callback(name, charts_store)]
    /\ UNCHANGED <<orchVars, pageVars, seg_table, kpi_cards, embedVars,
                   heatVars, trendVars, kpiVars, queryVars>>

UpdateSegmentationTable ==
    /\ seg_table # segmentation_table_callback(app, charts_store)
    /\ seg_table' = segmentation_table_callback(app, charts_store)
    /\ UNCHANGED <<orchVars, pageVars, figures, kpi_cards, embedVars,
                   heatVars, trendVars, kpiVars, queryVars>>

UpdateKpiCards ==
    /\ kpi_cards # update_kpi_cards(app, kpi_store)
    /\ kpi_cards' = update_kpi_cards(app, kpi_store)
    /\ UNCHANGED <<orchVars, pageVars, figures, seg_table, embedVars,
                   heatVars, trendVars, kpiVars, queryVars>>

\* every query fails, every query returns no row, every query returns rows,
\* and only the KPI query fails
OnlyKpiFails == [n \in QueryNames |-> IF n = "kpi_summary" THEN "error" ELSE "rows"]

InitRender ==
    /\ app \in Apps
    /\ warehouse \in {[n \in QueryNames |-> o] : o \in Outcomes} \cup {OnlyKpiFails}
    /\ LayoutInit
    /\ ViewIdle
    /\ PageIdle
    /\ HeatIdle /\ TrendIdle /\ KpiIdle /\ QueryIdle

NextRender ==
    \/ InitialLoad
    \/ RefreshWhenQuiet
    \/ Complete(1)
    \/ \E name \in ChartFigures : UpdateChart(name)
    \/ UpdateSegmentationTable
    \/ UpdateKpiCards

SpecRender == InitRender /\ [][NextRender]_vars

AllQueriesFail == \A n \in QueryNames : warehouse[n] = "error"

\* C20: when every query of a fetch fails the fetch still returns and writes
\* {} to the KPI store and six empty tables to the charts store; from these
\* every chart callback returns the empty figure, the segmentation table
\* callback "No data available" and the KPI cards callback its "Loading..."
\* cards; none raises.
C20_AllQueriesFailStillRenders ==
    AllQueriesFail
        => /\ last_call.kind = "response"
                => /\ last_call.result = "written"
                   /\ kpi_store.type = "dict" /\ kpi_store.data = <<>>
                   /\ charts_store.type = "dict" /\ charts_store.keys = ChartNameSet
                   /\ \A n \in ChartNameSet : charts_store.tables[n] = <<>>
           /\ \A n \in ChartFigures :
                 figures[n].made => (figures[n].empty /\ ~figures[n].raised)
           /\ seg_table.made => seg_table.no_data
           /\ kpi_cards.made => kpi_cards.loading

C20_Witness ==
    /\ AllQueriesFail
    /\ last_call.kind = "response" /\ last_call.result = "written"
    /\ Len(last_call.queries) = 7
    /\ charts_store.keys = ChartNameSet
    /\ \A n \in ChartFigures : figures[n] = chart_callback(n, charts_store)
    /\ \A n \in ChartFigures : figures[n] = BlankFigure
    /\ seg_table = NoDataAvailable
    /\ kpi_cards.made /\ kpi_cards.loading

(***************************************************************************)
(* SpecCatalog: calls of the DataQueries functions, interleaved with the   *)
(* events that change the state of the page.  The text a function returns  *)
(* is represented by the values its f-string interpolates.                 *)
(***************************************************************************)
\* the functions that take a limit argument
HasLimit(fn) == fn \in {"top_apps", "user_segmentation"}

\* WORKSPACE_FILTER, a class attribute built once from AppConfig.WORKSPACE_ID;
\* the queries of the basic app have no workspace filter
WORKSPACE_FILTER(a) ==
    IF a = "enhanced" THEN <<"AND workspace_id =", workspace_id>> ELSE <<>>

DataQueries_reads_dropdown(a, fn, d, limit) ==
    [name |-> fn, interval |-> days_back,
     limit |-> IF HasLimit(fn) THEN <<limit>> ELSE <<>>,
     filter |-> WORKSPACE_FILTER(a)]

\* DataQueries.get_<fn>(days_back, limit): the f-string it returns
DataQueries(a, fn, d, limit) ==
    [name |-> fn, interval |-> d,
     limit |-> IF HasLimit(fn) THEN <<limit>> ELSE <<>>,
     filter |-> WORKSPACE_FILTER(a)]

\* the arguments the functions are called with here
CatalogDays == {7, 90}
CatalogLimits == {10, 100}
CatalogArgs ==
    {<<fn, d, l>> : fn \in {n \in QueryNames : HasLimit(n)}, d \in CatalogDays,
                    l \in CatalogLimits}
    \cup {<<fn, d, 0>> : fn \in {n \in QueryNames : ~HasLimit(n)}, d \in CatalogDays}

\* one call of a DataQueries function; the model keeps the latest two calls
CallDataQueries(fn, d, limit) ==
    LET call == [fn |-> fn, days_back |-> d, limit |-> limit,
                 text |-> DataQueries(app, fn, d, limit)]
    IN  /\ <<fn, d, limit>> \in CatalogArgs
        /\ catalog_calls' = IF Len(catalog_calls) < 2 THEN Append(catalog_calls, call)
                            ELSE <<catalog_calls[2], call>>
        /\ UNCHANGED <<orchVars, heatVars, trendVars, kpiVars, queryVars, viewVars,
                       workspace_id, statusVars>>

WorkspaceIds == {DEFAULT_WORKSPACE_ID, "984752964297111"}

InitCatalog ==
    /\ app \in Apps
    /\ warehouse = WarehouseUp
    /\ LayoutInit
    /\ ViewIdle
    /\ workspace_id \in WorkspaceIds
    /\ catalog_calls = <<>>
    /\ StatusIdle
    /\ HeatIdle /\ TrendIdle /\ KpiIdle /\ QueryIdle

NextCatalog ==
    \/ InitialLoad
    \/ \E d \in DateRangeOptions : SelectWhenQuiet(d)
    \/ ToggleAutoRefresh
    \/ Complete(1)
    \/ \E fn \in QueryNames, d \in CatalogDays, limit \in CatalogLimits \cup {0} :
          CallDataQueries(fn, d, limit)

SpecCatalog == InitCatalog /\ [][NextCatalog]_vars

SameArguments(c1, c2) ==
    c1.fn = c2.fn /\ c1.days_back = c2.days_back /\ c1.limit = c2.limit

TimesIssued(name) ==
    Cardinality({i \in 1..Len(last_call.queries) : last_call.queries[i].name = name})

\* C22: a fetch that was not skipped issues each of the seven named queries
\* exactly once, in the order kpi_summary, dau_trend, top_apps, usage_heatmap,
\* user_cohorts, error_monitoring, user_segmentation, whatever the earlier
\* queries of the fetch returned (rows, no row, or a failure).
C22_SevenQueriesEachOnce ==
    last_call.kind = "response"
        => /\ \A n \in QueryNames : TimesIssued(n) = 1
           /\ Len(last_call.queries) = 1 + Len(ChartNames)
           /\ last_call.queries[1].name = "kpi_summary"
           /\ \A i \in 1..Len(ChartNames) : last_call.queries[1 + i].name = ChartNames[i]

C22_Witness ==
    /\ last_call.kind = "response"
    /\ warehouse["kpi_summary"] = "empty"
    /\ warehouse["dau_trend"] = "error"
    /\ warehouse["top_apps"] = "rows"
    /\ TimesIssued("user_segmentation") = 1
    /\ TimesIssued("top_apps") = 1

(***************************************************************************)
(* Claims about the triggers of the fetch callback of the enhanced app.    *)
(***************************************************************************)
\* C23: in the enhanced app a step of the fetch callback triggered by a
\* switch to a tab other than Apps Usage returns no_update: it issues no
\* query, starts no fetch and leaves kpi-data-store and charts-data-store as
\* they were, whatever the auto-refresh switch and the date range are.
C23_OtherTabSwitchFetchesNothing ==
    [][(app = "enhanced" /\ CallbackStep({"main-tabs"}) /\ active_tab' # "tab-apps-usage")
        => /\ last_call'.result = "no_update"
           /\ last_call'.queries = <<>>
           /\ UNCHANGED <<kpi_store, charts_store, aux_stores, inflight>>]_vars

C23_Witness ==
    /\ app = "enhanced"
    /\ last_call.kind = "callback"
    /\ last_call.trigger_id = "main-tabs"
    /\ last_call.result = "no_update"
    /\ active_tab = "tab-security"
    /\ ~auto_refresh
    /\ days_back = 180
    /\ HasData(charts_store) /\ charts_store.days_back # days_back

\* the dau_trend query of the fetch that returned last
DauQuery == last_call.queries[1 + CHOOSE i \in 1..Len(ChartNames) : ChartNames[i] = "dau_trend"]

\* the subtitle of the Daily Active Users chart card: "Last 90 days"
DAU_CHART_DAYS == 90

\* C24: in the enhanced app, whose Daily Active Users chart is labelled
\* "Last 90 days", the dau_trend query of every returned fetch covers the last
\* 90 days, for each date range of the dropdown.
C24_DauTrendCoversNinetyDays ==
    (Written /\ app = "enhanced")
        => /\ DauQuery.name = "dau_trend"
           /\ DauQuery.days_back = DAU_CHART_DAYS

(***************************************************************************)
(* SpecLoad: the first invocation of the fetch callback, which Dash makes  *)
(* on page load with an empty ctx.triggered, for every value its Input and *)
(* State arguments can hold at that moment.                                *)
(***************************************************************************)
InitLoad ==
    /\ app \in Apps
    /\ warehouse \in {WarehouseUp, WarehouseDown}
    /\ days_back \in DateRangeOptions
    /\ auto_refresh \in BOOLEAN
    /\ active_tab \in AppTabs(app)
    /\ kpi_store = NoneStore
    /\ charts_store = NoneCharts
    /\ aux_stores = [s \in AuxStoreIds |-> NoneStore]
    /\ inflight = <<>>
    /\ last_call = [kind |-> "none", triggered |-> <<>>, trigger_id |-> "", result |-> "", queries |-> <<>>]
    /\ ViewIdle
    /\ PageIdle
    /\ HeatIdle /\ TrendIdle /\ KpiIdle /\ QueryIdle

NextLoad ==
    \/ InitialLoad
    \/ Complete(1)

SpecLoad == InitLoad /\ [][NextLoad]_vars

\* C25: the invocation of the fetch callback that reports no trigger (page
\* load) starts a full fetch in the enhanced app, whatever the auto-refresh
\* switch and the active tab are, and that fetch writes both stores; in the
\* basic app it issues no query and writes {} to both stores.
C25_UntriggeredInvocation ==
    [][/\ (~Started /\ last_call'.kind = "callback")
            => /\ last_call'.triggered = <<>>
               /\ last_call'.queries = <<>>
               /\ IF app = "enhanced"
                  THEN /\ last_call'.result = "fetch"
                       /\ inflight' = <<[group |-> "charts-data-store", days_back |-> days_back]>>
                       /\ UNCHANGED <<kpi_store, charts_store>>
                  ELSE /\ last_call'.result = "empty"
                       /\ inflight' = <<>>
                       /\ kpi_store' = EmptyKpi(0)
                       /\ charts_store' = EmptyCharts(0)
       /\ (last_call.kind = "callback" /\ last_call.triggered = <<>>
             /\ last_call'.kind = "response")
            => /\ app = "enhanced"
               /\ last_call'.result = "written"
               /\ Len(last_call'.queries) = Cardinality(QueryNames)
               /\ kpi_store'.type = "dict" /\ kpi_store'.days_back = days_back
               /\ charts_store'.keys = ChartNameSet
               /\ charts_store'.days_back = days_back]_vars

C25_Witness ==
    /\ app = "enhanced"
    /\ Written
    /\ ~auto_refresh
    /\ active_tab = "tab-weekly"
    /\ Len(last_call.queries) = Cardinality(QueryNames)
    /\ charts_store.keys = ChartNameSet
    /\ charts_store.tables["dau_trend"] # <<>>

\* C26: in the enhanced app a step of the fetch callback triggered by the
\* interval while auto-refresh is on starts a fetch of the apps-usage group
\* for the selected date range whatever tab is active, and when that fetch
\* returns it rewrites kpi-data-store and charts-data-store; a step triggered
\* by a tab switch is the only one the active tab can turn into no_update.
C26_TickFetchesOnEveryTab ==
    [][/\ (app = "enhanced" /\ CallbackStep({"interval-component"}) /\ auto_refresh)
            => /\ last_call'.result = "fetch"
               /\ inflight' = Append(inflight, [group |-> "charts-data-store",
                                                days_back |-> days_back])
       /\ (app = "enhanced" /\ last_call'.kind = "callback"
             /\ last_call'.result = "no_update" /\ last_call'.trigger_id # "main-tabs")
            => (last_call'.trigger_id = "interval-component" /\ ~auto_refresh)
       /\ (app = "enhanced" /\ last_call'.kind = "response")
            => /\ last_call'.result = "written"
               /\ Len(last_call'.queries) = Cardinality(QueryNames)
               /\ kpi_store'.type = "dict" /\ charts_store'.keys = ChartNameSet
               /\ kpi_store'.days_back = charts_store'.days_back]_vars

C26_Witness ==
    /\ app = "enhanced"
    /\ active_tab = "tab-logfood-1"
    /\ auto_refresh
    /\ last_call.kind = "callback"
    /\ last_call.trigger_id = "interval-component"
    /\ last_call.result = "fetch"
    /\ Len(inflight) = 1 /\ inflight[1].days_back = 7
    /\ HasData(charts_store)

(***************************************************************************)
(* SpecStatus: the events of interval-component and refresh-button, each   *)
(* with the two callbacks Dash invokes for it: the fetch callback (up to   *)
(* its first query) and update_timestamp.                                  *)
(***************************************************************************)
MaxClock == 2        \* ticks of the wall clock

\* time passes
AdvanceClock ==
    /\ clock < MaxClock
    /\ clock' = clock + 1
    /\ UNCHANGED <<orchVars, heatVars, trendVars, kpiVars, queryVars, viewVars,
                   catalogVars, last_update, connection_status>>

\* db_conn: connection is set to None by __init__ and assigned nowhere else;
\* connect() of the enhanced app returns True
db_conn == [connection |-> "None", connect |-> TRUE]

\* the status update_timestamp computes: "Connected" when
\* db_conn.connection or db_conn.connect() is truthy, "Disconnected" otherwise
ConnectionStatus(conn) ==
    IF conn.connection # "None" \/ conn.connect THEN "Connected" ELSE "Disconnected"

\* update_timestamp: datetime.now() formatted, and in the enhanced app the
\* connection status; the basic app receives auto_refresh and does not use it
update_timestamp(a, auto) ==
    [last_update |-> [made |-> TRUE, now |-> clock],
     connection_status |-> IF a = "enhanced"
                           THEN [made |-> TRUE, text |-> ConnectionStatus(db_conn)]
                           ELSE connection_status]

\* one event: both callbacks are invoked with the inputs of the moment
StatusEvent(triggered) ==
    /\ InvokeFetch(triggered, days_back, active_tab)
    /\ last_update' = update_timestamp(app, auto_refresh).last_update
    /\ connection_status' = update_timestamp(app, auto_refresh).connection_status
    /\ UNCHANGED <<days_back, auto_refresh, active_tab>>
    /\ UNCHANGED <<heatVars, trendVars, kpiVars, queryVars, viewVars, catalogVars, clock>>

LoadPage == ~Started /\ StatusEvent(<<>>)

IntervalFires == Started /\ StatusEvent(<<"interval-component">>)

RefreshClicked == Started /\ StatusEvent(<<"refresh-button">>)

InitStatus ==
    /\ app \in Apps
    /\ warehouse \in {WarehouseUp, WarehouseDown}
    /\ LayoutInit
    /\ ViewIdle
    /\ PageIdle
    /\ HeatIdle /\ TrendIdle /\ KpiIdle /\ QueryIdle

NextStatus ==
    \/ LoadPage
    \/ IntervalFires
    \/ RefreshClicked
    \/ ToggleAutoRefresh
    \/ \E i \in 1..MaxInFlight : Complete(i)
    \/ AdvanceClock

SpecStatus == InitStatus /\ [][NextStatus]_vars

\* C27: the displayed last-update time changes only when a fetch was
\* performed: a timer tick that the fetch callback skips because auto-refresh
\* is off leaves the children of last-update-time as they were.
C27_SkippedTickKeepsLastUpdate ==
    [][(CallbackStep({"interval-component"}) /\ ~auto_refresh
          /\ last_call'.result = "no_update")
        => last_update' = last_update]_vars

\* C28: in the enhanced app, after a timer tick or a refresh click while
\* every query of the analytic store fails, the connection-status indicator
\* does not show "Connected".
C28_StatusReflectsReachability ==
    (/\ app = "enhanced"
     /\ \A n \in QueryNames : warehouse[n] = "error"
     /\ last_call.kind = "callback"
     /\ last_call.trigger_id \in {"interval-component", "refresh-button"})
        => /\ connection_status.made
           /\ connection_status.text # "Connected"

(***************************************************************************)
(* SpecKpiCards: the KPI record of the enhanced app from the query to the  *)
(* four cards.  The record is the one row of the KPI summary query, put in *)
(* kpi-data-store by the fetch callback and read back by update_kpi_cards; *)
(* a SQL NULL arrives there as None.                                       *)
(***************************************************************************)
NullRate == [null |-> TRUE, hundredths |-> 0]
Hundredths(h) == [null |-> FALSE, hundredths |-> h]

\* ROUND(SUM(CASE WHEN error THEN 1 ELSE 0 END) * 100.0 / NULLIF(number of rows, 0), 2)
overall_error_rate(errors, interactions) ==
    IF interactions = 0 THEN NullRate ELSE Hundredths(Round2(errors, interactions))

\* c.* of the final SELECT next to the columns get_kpi_summary models
kpi_summary_record(counts) ==
    [total_unique_users |-> counts.users,
     total_unique_apps |-> counts.apps,
     total_interactions |-> counts.interactions,
     overall_error_rate |-> overall_error_rate(counts.errors, counts.interactions),
     user_growth_pct |-> get_kpi_summary(counts).user_growth_pct,
     interaction_growth_pct |-> get_kpi_summary(counts).interaction_growth_pct]

\* the change argument of a card: None, a number (in tenths) or a text
NoChange == [kind |-> "None", tenths |-> 0, text |-> ""]
NumberChange(t) == [kind |-> "number", tenths |-> t, text |-> ""]
TextChange(s) == [kind |-> "text", tenths |-> 0, text |-> s]

ChangeOf(pct) == IF pct.null THEN NoChange ELSE NumberChange(pct.tenths)

\* create_executive_kpi_card: the badge is html.Span(change_text) unless
\* change is None
create_executive_kpi_card(title, value, change) ==
    [title |-> title, value |-> value,
     badge |-> IF change.kind = "None" THEN <<>>
               ELSE IF change.kind = "number"
               THEN <<[sign |-> IF change.tenths >= 0 THEN "+" ELSE "", tenths |-> change.tenths]>>
               ELSE <<[sign |-> "", text |-> change.text]>>]

\* error_rate < 5, on hundredths
ERROR_RATE_HEALTHY == 5

\* update_kpi_cards of the enhanced app on a non-empty record.  Formatting
\* None with f"{error_rate:.2f}%" raises TypeError; the callback has no handler.
update_kpi_cards_enhanced(kpi_data) ==
    IF kpi_data.type = "None" \/ kpi_data.data = <<>>
    THEN [made |-> TRUE, raised |-> FALSE,
          cards |-> [i \in 1..4 |-> create_executive_kpi_card("Loading...", <<>>, NoChange)]]
    ELSE LET row == kpi_data.data[1]
             error_rate == Get(row, "overall_error_rate", Hundredths(0))
         IN  IF error_rate.null
             THEN [made |-> TRUE, raised |-> TRUE, cards |-> <<>>]
             ELSE [made |-> TRUE, raised |-> FALSE,
                   cards |-> <<
                      create_executive_kpi_card("Total Users",
                          <<Get(row, "total_unique_users", 0)>>,
                          ChangeOf(Get(row, "user_growth_pct", Null))),
                      create_executive_kpi_card("Active Apps",
                          <<Get(row, "total_unique_apps", 0)>>, NoChange),
                      create_executive_kpi_card("Interactions",
                          <<Get(row, "total_interactions", 0)>>,
                          ChangeOf(Get(row, "interaction_growth_pct", Null))),
                      create_executive_kpi_card("Error Rate",
                          <<error_rate.hundredths>>,
                          TextChange(IF error_rate.hundredths < ERROR_RATE_HEALTHY * 100
                                     THEN "Healthy" ELSE "Needs Attention"))>>]

\* the fetch callback runs the KPI summary query and returns its row
FetchKpiRecord ==
    /\ kpi_row = <<>>
    /\ kpi_row' = kpi_summary_record(kpi_counts)
    /\ kpi_store' = KpiData(<<kpi_summary_record(kpi_counts)>>, kpi_counts.days_back)
    /\ UNCHANGED <<app, days_back, auto_refresh, active_tab, charts_store, aux_stores,
                   inflight, last_call, warehouse>>
    /\ UNCHANGED <<pageVars, viewVars, heatVars, trendVars, kpi_counts, queryVars>>

\* kpi-data-store changed: update_kpi_cards
UpdateKpiCardsEnhanced ==
    /\ kpi_row # <<>>
    /\ kpi_cards = NotRendered
    /\ kpi_cards' = update_kpi_cards_enhanced(kpi_store)
    /\ UNCHANGED <<orchVars, pageVars, seg_table, embedVars, figures, heatVars, trendVars,
                   kpiVars, queryVars>>

\* aggregates of the two periods: no more distinct users, apps or error rows
\* than rows
KpiAggregates ==
    {c \in [days_back : {DEFAULT_DAYS_BACK},
            users : 0..MaxCount, prev_users : 0..MaxCount,
            interactions : 0..MaxCount, prev_interactions : 0..MaxCount,
            apps : 0..1, errors : 0..MaxCount] :
        /\ c.users <= c.interactions /\ c.apps <= c.interactions
        /\ c.errors <= c.interactions /\ c.prev_users <= c.prev_interactions}

InitKpiCards ==
    /\ app = "enhanced"
    /\ warehouse = WarehouseUp
    /\ LayoutInit
    /\ ViewIdle
    /\ PageIdle
    /\ kpi_counts \in KpiAggregates
    /\ kpi_row = <<>>
    /\ HeatIdle /\ TrendIdle /\ QueryIdle

NextKpiCards == FetchKpiRecord \/ UpdateKpiCardsEnhanced

SpecKpiCards == InitKpiCards /\ [][NextKpiCards]_vars

\* C29: for every record the KPI summary query returns, the record of a
\* window without events included (error rate and both growth percentages
\* null), update_kpi_cards returns four cards without raising, and a card
\* whose growth percentage is null has no change badge.
C29_KpiCardsForEveryRecord ==
    (kpi_cards.made /\ kpi_row # <<>>)
        => /\ ~kpi_cards.raised
           /\ Len(kpi_cards.cards) = 4
           /\ kpi_row.user_growth_pct.null => kpi_cards.cards[1].badge = <<>>
           /\ kpi_row.interaction_growth_pct.null => kpi_cards.cards[3].badge = <<>>

(***************************************************************************)
(* Claims about the columns of one cohort row.                             *)
(***************************************************************************)
\* the users of a day the CASE of new_users / returning_users selects
NewOn(day) == {u \in ActiveOn(day) : FirstSeen(u) = day}
ReturningOn(day) == {u \in ActiveOn(day) : FirstSeen(u) < day}

\* C30: in every row of the cohort result of the enhanced app, each user
\* active on the row's day is counted in exactly one of new_users and
\* returning_users, and new_users + returning_users = total_users, the
\* number of users active that day.
C30_NewPlusReturningIsTotal ==
    (cohort_rows.made /\ app = "enhanced")
        => \A i \in 1..Len(cohort_rows.rows) :
              LET row == cohort_rows.rows[i]
                  day == row.activity_date
              IN  /\ row.new_users = Cardinality(NewOn(day))
                  /\ row.returning_users = Cardinality(ReturningOn(day))
                  /\ NewOn(day) \cap ReturningOn(day) = {}
                  /\ NewOn(day) \cup ReturningOn(day) = ActiveOn(day)
                  /\ row.total_users = Cardinality(ActiveOn(day))
                  /\ row.new_users + row.returning_users = row.total_users

C30_Witness ==
    /\ cohort_rows.made /\ app = "enhanced"
    /\ Len(cohort_rows.rows) = 2
    /\ cohort_rows.rows[1].new_users = 1 /\ cohort_rows.rows[1].total_users = 1
    /\ cohort_rows.rows[2].returning_users = 1 /\ cohort_rows.rows[2].total_users = 1

====
